---- MODULE Spec2Model ----
(***************************************************************************)
(* A model of the AI Street Market services: the Banker (accounts, order   *)
(* book, settlement) and the World Engine (tick loop, spawn pool, FCFS     *)
(* gather).  Each service is a single asyncio process: a handler runs      *)
(* without interruption up to its next await, so every action below is one *)
(* run of a handler from one suspension point to the next.                 *)
(*                                                                         *)
(* Conventions.  A Python dict is a function whose DOMAIN is the set of    *)
(* keys present.  An optional value (None or v) is the set {} or {v}, an   *)
(* optional pending message is the sequence <<>> or <<m>>.  Wallets and    *)
(* prices are binary floating-point numbers of the source, counted in      *)
(* units of the smallest amount: an arithmetic result is rounded to the    *)
(* significand of the format (fl, below).  A uuid4 is the number of uuids  *)
(* issued before it + 1; the empty string used as a spawn id is 0.         *)
(***************************************************************************)
EXTENDS Integers, Sequences, FiniteSets, TLC

\* ------------------------------------------------------------------ bounds
MaxTick == 2
MaxBankerTick == 1
MaxInv == 2
MaxWallet == 220
PriceStep == 60
PotatoSpawn == 2
MaxGather == 3
MaxActions == 6
MaxOtherActions == 1

STARTING_WALLET == 100

\* Agents, items and ids of the inputs.  Orders are posted by one agent and
\* accepted by both, so each agent is buyer and seller in turn; "m2" is an
\* id no order carries; a bystander joins and does nothing else.
Agents == {"a", "b"}
OrderAgents == {"a"}
Bystanders == {"c"}
Items == {"potato"}
OrderIds == {"m1"}
UnknownId == "m2"
Qtys == -1 .. 2
OrderQtys == 0 .. 2
Prices == {PriceStep}

\* ------------------------------------------------------------ dict helpers
EmptyDict == [k \in {} |-> 0]

Get(d, k, default) == IF k \in DOMAIN d THEN d[k] ELSE default

Put(d, k, v) == [x \in (DOMAIN d) \cup {k} |-> IF x = k THEN v ELSE d[x]]

Del(d, k) == [x \in (DOMAIN d) \ {k} |-> d[x]]

Min(x, y) == IF x <= y THEN x ELSE y

Dicts(K, V) == UNION {[D -> V] : D \in SUBSET K}

\* ------------------------------------------------------------------ floats
\* A Python float is a binary floating-point number.  The model keeps the
\* format and narrows its significand (53 bits in the source) so that the
\* amounts of the model reach it: every whole amount below 2^FLOAT_MANT_DIG
\* is exact, a larger one is rounded to the nearest number with that many
\* significant bits, a tie to the even one.
FLOAT_MANT_DIG == 8

RECURSIVE Pow2(_)
Pow2(n) == IF n = 0 THEN 1 ELSE 2 * Pow2(n - 1)

\* the spacing of the floats around x >= 0
RECURSIVE Ulp(_, _)
Ulp(x, step) ==
    IF x < step * Pow2(FLOAT_MANT_DIG) THEN step ELSE Ulp(x, 2 * step)

\* the float nearest to the real number x
fl(x) ==
    IF x < 0
    THEN LET step == Ulp(-x, 1)
             q == (-x) \div step
             r == (-x) % step
         IN IF 2 * r < step \/ (2 * r = step /\ q % 2 = 0)
            THEN -(q * step) ELSE -((q + 1) * step)
    ELSE LET step == Ulp(x, 1)
             q == x \div step
             r == x % step
         IN IF 2 * r < step \/ (2 * r = step /\ q % 2 = 0)
            THEN q * step ELSE (q + 1) * step

VARIABLES banker, bank_pending, bank_out, world, uuid_count, w_pc,
          world_pending, nature_spawn, tick_out, granted,
          gov, gov_pending, gov_seen,
          agent, a_pc, a_pending, a_out, a_first, bus, ev

vars == <<banker, bank_pending, bank_out, world, uuid_count, w_pc,
          world_pending, nature_spawn, tick_out, granted,
          gov, gov_pending, gov_seen,
          agent, a_pc, a_pending, a_out, a_first, bus, ev>>

Idle == [h |-> "idle"]

bankerVars == <<banker, bank_pending, bank_out>>
worldVars == <<world, uuid_count, w_pc, world_pending, nature_spawn,
               tick_out, granted>>
govVars == <<gov, gov_pending, gov_seen>>
agentVars == <<agent, a_pc, a_pending, a_out, a_first, bus>>

\* ---------------------------------------------------------- BankerState
AgentAccount(w) == [wallet |-> w, inventory |-> EmptyDict]

BankerState0 == [current_tick |-> 0, accounts |-> EmptyDict, orders |-> EmptyDict]

advance_tick(st, tick) == [st EXCEPT !.current_tick = tick]

create_account(st, agent_id, w) ==
    [st EXCEPT !.accounts = Put(@, agent_id, AgentAccount(w))]

has_account(st, agent_id) == agent_id \in DOMAIN st.accounts

debit_wallet(st, agent_id, amount) ==
    IF agent_id \notin DOMAIN st.accounts THEN st
    ELSE IF st.accounts[agent_id].wallet < amount THEN st
    ELSE [st EXCEPT !.accounts[agent_id].wallet = fl(@ - amount)]

credit_wallet(st, agent_id, amount) ==
    IF agent_id \notin DOMAIN st.accounts THEN st
    ELSE [st EXCEPT !.accounts[agent_id].wallet = fl(@ + amount)]

debit_inventory(st, agent_id, item, quantity) ==
    IF agent_id \notin DOMAIN st.accounts THEN st
    ELSE LET inv == st.accounts[agent_id].inventory
             current == Get(inv, item, 0)
         IN IF current < quantity THEN st
            ELSE IF current - quantity = 0
                 THEN [st EXCEPT !.accounts[agent_id].inventory = Del(inv, item)]
                 ELSE [st EXCEPT !.accounts[agent_id].inventory =
                                      Put(inv, item, current - quantity)]

credit_inventory(st, agent_id, item, quantity) ==
    IF agent_id \notin DOMAIN st.accounts THEN st
    ELSE LET inv == st.accounts[agent_id].inventory
         IN [st EXCEPT !.accounts[agent_id].inventory =
                           Put(inv, item, Get(inv, item, 0) + quantity)]

has_inventory(st, agent_id, item, quantity) ==
    /\ agent_id \in DOMAIN st.accounts
    /\ Get(st.accounts[agent_id].inventory, item, 0) >= quantity

add_order(st, order) == [st EXCEPT !.orders = Put(@, order.msg_id, order)]

\* variant: subtracts, and keeps a filled order in the book
reduce_order_keeps_filled(st, msg_id, quantity) ==
    IF msg_id \notin DOMAIN st.orders THEN st
    ELSE [st EXCEPT !.orders[msg_id].quantity = @ - quantity]

reduce_order(st, msg_id, quantity) ==
    IF msg_id \notin DOMAIN st.orders THEN st
    ELSE IF st.orders[msg_id].quantity - quantity <= 0
         THEN [st EXCEPT !.orders = Del(@, msg_id)]
         ELSE [st EXCEPT !.orders[msg_id].quantity = @ - quantity]

\* variant: an order survives the tick it expires at
purge_expired_orders_strict(st) ==
    LET expired == {m \in DOMAIN st.orders :
                       \E t \in st.orders[m].expires_tick : t < st.current_tick}
    IN [st EXCEPT !.orders = [m \in (DOMAIN st.orders) \ expired |-> st.orders[m]]]

purge_expired_orders(st) ==
    LET expired == {m \in DOMAIN st.orders :
                       \E t \in st.orders[m].expires_tick : t <= st.current_tick}
    IN [st EXCEPT !.orders = [m \in (DOMAIN st.orders) \ expired |-> st.orders[m]]]

\* ---------------------------------------------------------- banker rules
\* variant: a JOIN always opens a fresh account
process_join_resets(envelope, st) ==
    [state |-> create_account(st, envelope.payload.agent_id, STARTING_WALLET),
     errors |-> {}]

process_join(envelope, st) ==
    LET agent_id == envelope.payload.agent_id
    IN [state |-> IF ~has_account(st, agent_id)
                  THEN create_account(st, agent_id, STARTING_WALLET)
                  ELSE st,
        errors |-> {}]

process_offer(envelope, st) ==
    LET agent_id == envelope.from
        p == envelope.payload
    IN IF ~has_account(st, agent_id)
       THEN [state |-> st, errors |-> {"No account"}]
       ELSE IF ~has_inventory(st, agent_id, p.item, p.quantity)
       THEN [state |-> st, errors |-> {"insufficient inventory"}]
       ELSE [state |-> add_order(st, [msg_id |-> envelope.id,
                                      from_agent |-> agent_id,
                                      msg_type |-> "offer",
                                      item |-> p.item,
                                      quantity |-> p.quantity,
                                      price_per_unit |-> p.price_per_unit,
                                      tick |-> st.current_tick,
                                      expires_tick |-> p.expires_tick]),
             errors |-> {}]

\* variant: a BID must leave something in the wallet
process_bid_strict(envelope, st) ==
    LET agent_id == envelope.from
        p == envelope.payload
        total_cost == fl(p.quantity * p.max_price_per_unit)
    IN IF ~has_account(st, agent_id)
       THEN [state |-> st, errors |-> {"No account"}]
       ELSE IF st.accounts[agent_id].wallet <= total_cost
       THEN [state |-> st, errors |-> {"insufficient funds"}]
       ELSE [state |-> add_order(st, [msg_id |-> envelope.id,
                                      from_agent |-> agent_id,
                                      msg_type |-> "bid",
                                      item |-> p.item,
                                      quantity |-> p.quantity,
                                      price_per_unit |-> p.max_price_per_unit,
                                      tick |-> st.current_tick,
                                      expires_tick |-> {}]),
             errors |-> {}]

process_bid(envelope, st) ==
    LET agent_id == envelope.from
        p == envelope.payload
        total_cost == fl(p.quantity * p.max_price_per_unit)
    IN IF ~has_account(st, agent_id)
       THEN [state |-> st, errors |-> {"No account"}]
       ELSE IF st.accounts[agent_id].wallet < total_cost
       THEN [state |-> st, errors |-> {"insufficient funds"}]
       ELSE [state |-> add_order(st, [msg_id |-> envelope.id,
                                      from_agent |-> agent_id,
                                      msg_type |-> "bid",
                                      item |-> p.item,
                                      quantity |-> p.quantity,
                                      price_per_unit |-> p.max_price_per_unit,
                                      tick |-> st.current_tick,
                                      expires_tick |-> {}]),
             errors |-> {}]

TradeResult(errors) ==
    [errors |-> errors, buyer |-> "", seller |-> "", item |-> "",
     quantity |-> 0, total_price |-> 0, reference_msg_id |-> ""]

\* variant: the seller is credited the quantity, not the price
execute_trade_credits_quantity(st, buyer, seller, item, trade_qty, total_price, ref_id) ==
    LET s1 == debit_wallet(st, buyer, total_price)
        s2 == credit_wallet(s1, seller, trade_qty)
        s3 == debit_inventory(s2, seller, item, trade_qty)
        s4 == credit_inventory(s3, buyer, item, trade_qty)
    IN reduce_order(s4, ref_id, trade_qty)

\* variant: the buyer's side first, the seller's side left for later
execute_trade_buyer_side_only(st, buyer, seller, item, trade_qty, total_price, ref_id) ==
    LET s1 == debit_wallet(st, buyer, total_price)
        s4 == credit_inventory(s1, buyer, item, trade_qty)
    IN reduce_order(s4, ref_id, trade_qty)

\* rules.py:166-173: the four account updates and the order reduction
execute_trade(st, buyer, seller, item, trade_qty, total_price, ref_id) ==
    LET s1 == debit_wallet(st, buyer, total_price)
        s2 == credit_wallet(s1, seller, total_price)
        s3 == debit_inventory(s2, seller, item, trade_qty)
        s4 == credit_inventory(s3, buyer, item, trade_qty)
    IN reduce_order(s4, ref_id, trade_qty)

\* variant: no cap at the order's quantity
trade_quantity_uncapped(accept_qty, order) == accept_qty

trade_quantity(accept_qty, order) == Min(accept_qty, order.quantity)

\* variant: no self-trade prevention
is_self_trade_never(buyer, seller) == FALSE

is_self_trade(buyer, seller) == buyer = seller

\* variant: the money moves before the seller's inventory is checked
process_accept_pays_first(envelope, st) ==
    LET accepter == envelope.from
        ref_id == envelope.payload.reference_msg_id
        accept_qty == envelope.payload.quantity
    IN IF ref_id \notin DOMAIN st.orders
       THEN [state |-> st, result |-> TradeResult({"not found"})]
       ELSE
       LET order == st.orders[ref_id]
           buyer == IF order.msg_type = "offer" THEN accepter ELSE order.from_agent
           seller == IF order.msg_type = "offer" THEN order.from_agent ELSE accepter
           trade_qty == trade_quantity(accept_qty, order)
           total_price == fl(trade_qty * order.price_per_unit)
           item == order.item
           paid == credit_wallet(debit_wallet(st, buyer, total_price),
                                 seller, total_price)
       IN IF is_self_trade(buyer, seller)
          THEN [state |-> st, result |-> TradeResult({"Self-trade not allowed"})]
          ELSE IF ~has_account(st, buyer)
          THEN [state |-> st, result |-> TradeResult({"Buyer has no account"})]
          ELSE IF ~has_account(st, seller)
          THEN [state |-> st, result |-> TradeResult({"Seller has no account"})]
          ELSE IF st.accounts[buyer].wallet < total_price
          THEN [state |-> st, result |-> TradeResult({"insufficient funds"})]
          ELSE IF ~has_inventory(st, seller, item, trade_qty)
          THEN [state |-> paid, result |-> TradeResult({"insufficient inventory"})]
          ELSE [state |-> execute_trade(st, buyer, seller, item, trade_qty,
                                        total_price, ref_id),
                result |-> [errors |-> {}, buyer |-> buyer, seller |-> seller,
                            item |-> item, quantity |-> trade_qty,
                            total_price |-> total_price,
                            reference_msg_id |-> ref_id]]

process_accept(envelope, st) ==
    LET accepter == envelope.from
        ref_id == envelope.payload.reference_msg_id
        accept_qty == envelope.payload.quantity
    IN IF ref_id \notin DOMAIN st.orders
       THEN [state |-> st, result |-> TradeResult({"not found"})]
       ELSE
       LET order == st.orders[ref_id]
           buyer == IF order.msg_type = "offer" THEN accepter ELSE order.from_agent
           seller == IF order.msg_type = "offer" THEN order.from_agent ELSE accepter
           trade_qty == trade_quantity(accept_qty, order)
           total_price == fl(trade_qty * order.price_per_unit)
           item == order.item
       IN IF is_self_trade(buyer, seller)
          THEN [state |-> st, result |-> TradeResult({"Self-trade not allowed"})]
          ELSE IF ~has_account(st, buyer)
          THEN [state |-> st, result |-> TradeResult({"Buyer has no account"})]
          ELSE IF ~has_account(st, seller)
          THEN [state |-> st, result |-> TradeResult({"Seller has no account"})]
          ELSE IF st.accounts[buyer].wallet < total_price
          THEN [state |-> st, result |-> TradeResult({"insufficient funds"})]
          ELSE IF ~has_inventory(st, seller, item, trade_qty)
          THEN [state |-> st, result |-> TradeResult({"insufficient inventory"})]
          ELSE [state |-> execute_trade(st, buyer, seller, item, trade_qty,
                                        total_price, ref_id),
                result |-> [errors |-> {}, buyer |-> buyer, seller |-> seller,
                            item |-> item, quantity |-> trade_qty,
                            total_price |-> total_price,
                            reference_msg_id |-> ref_id]]

RECURSIVE debit_all(_, _, _, _)
debit_all(st, agent_id, inputs, keys) ==
    IF keys = {} THEN st
    ELSE LET item == CHOOSE k \in keys : TRUE
         IN debit_all(debit_inventory(st, agent_id, item, inputs[item]),
                      agent_id, inputs, keys \ {item})

\* variant: debits the inputs it can and leaves the others
process_craft_start_partial(envelope, st) ==
    LET agent_id == envelope.from
        inputs == envelope.payload.inputs
    IN IF ~has_account(st, agent_id)
       THEN [state |-> st, errors |-> {"No account"}]
       ELSE LET errors == {item \in DOMAIN inputs :
                              ~has_inventory(st, agent_id, item, inputs[item])}
            IN [state |-> debit_all(st, agent_id, inputs, DOMAIN inputs),
                errors |-> errors]

process_craft_start(envelope, st) ==
    LET agent_id == envelope.from
        inputs == envelope.payload.inputs
    IN IF ~has_account(st, agent_id)
       THEN [state |-> st, errors |-> {"No account"}]
       ELSE LET errors == {item \in DOMAIN inputs :
                              ~has_inventory(st, agent_id, item, inputs[item])}
            IN IF errors # {}
               THEN [state |-> st, errors |-> errors]
               ELSE [state |-> debit_all(st, agent_id, inputs, DOMAIN inputs),
                     errors |-> {}]

\* variant: the quantity is not checked
process_gather_result_any_quantity(envelope, st) ==
    LET p == envelope.payload
    IN IF p.agent_id = ""
       THEN [state |-> st, errors |-> {"Missing agent_id"}]
       ELSE LET s1 == IF ~has_account(st, p.agent_id)
                      THEN create_account(st, p.agent_id, STARTING_WALLET)
                      ELSE st
            IN [state |-> credit_inventory(s1, p.agent_id, p.item, p.quantity),
                errors |-> {}]

process_gather_result(envelope, st) ==
    LET p == envelope.payload
    IN IF p.agent_id = ""
       THEN [state |-> st, errors |-> {"Missing agent_id"}]
       ELSE IF p.quantity <= 0
       THEN [state |-> st, errors |-> {"Invalid quantity"}]
       ELSE LET s1 == IF ~has_account(st, p.agent_id)
                      THEN create_account(st, p.agent_id, STARTING_WALLET)
                      ELSE st
            IN [state |-> credit_inventory(s1, p.agent_id, p.item, p.quantity),
                errors |-> {}]

RECURSIVE credit_all(_, _, _, _)
credit_all(st, agent_id, outputs, keys) ==
    IF keys = {} THEN st
    ELSE LET item == CHOOSE k \in keys : TRUE
         IN credit_all(credit_inventory(st, agent_id, item, outputs[item]),
                       agent_id, outputs, keys \ {item})

\* variant: credits one of the listed outputs only
process_craft_complete_one_item(envelope, st) ==
    LET agent_id == envelope.from
        outputs == envelope.payload.output
    IN IF ~has_account(st, agent_id)
       THEN [state |-> st, errors |-> {"No account"}]
       ELSE IF outputs = EmptyDict THEN [state |-> st, errors |-> {}]
       ELSE LET item == CHOOSE k \in DOMAIN outputs : TRUE
            IN [state |-> credit_inventory(st, agent_id, item, outputs[item]),
                errors |-> {}]

process_craft_complete(envelope, st) ==
    LET agent_id == envelope.from
        outputs == envelope.payload.output
    IN IF ~has_account(st, agent_id)
       THEN [state |-> st, errors |-> {"No account"}]
       ELSE [state |-> credit_all(st, agent_id, outputs, DOMAIN outputs),
             errors |-> {}]

\* ------------------------------------------------------ envelopes (inputs)
\* The Banker parses only the envelope (payload is an untyped dict), so it
\* also receives payloads the pydantic payload models would reject: zero and
\* negative quantities are part of the inputs.
Envelope(type, id, from, payload) ==
    [type |-> type, id |-> id, from |-> from, payload |-> payload]

JoinEnvelopes ==
    {Envelope("join", "e", f, [agent_id |-> a]) : f \in {"a"}, a \in Agents}
    \cup {Envelope("join", "e", f, [agent_id |-> f]) : f \in Agents \cup Bystanders}

OfferEnvelopes ==
    {Envelope("offer", i, f, p) :
        i \in OrderIds, f \in OrderAgents,
        p \in [item : Items, quantity : OrderQtys, price_per_unit : Prices,
               expires_tick : {{}}]}

BidEnvelopes ==
    {Envelope("bid", i, f, p) :
        i \in OrderIds, f \in OrderAgents,
        p \in [item : Items, quantity : OrderQtys, max_price_per_unit : Prices]}

AcceptEnvelopes ==
    {Envelope("accept", "e", f, p) :
        f \in Agents, p \in [reference_msg_id : OrderIds, quantity : Qtys]}
    \cup {Envelope("accept", "e", f, [reference_msg_id |-> UnknownId, quantity |-> 1]) :
            f \in Agents}

CraftStartEnvelopes ==
    {Envelope("craft_start", "e", f, [inputs |-> d]) :
        f \in Agents, d \in Dicts(Items, Qtys)}

CraftCompleteEnvelopes ==
    {Envelope("craft_complete", "e", f, [output |-> d]) :
        f \in Agents, d \in Dicts(Items, Qtys)}

\* Kinds the Banker's market handler ignores, its own Settlement echo included.
OtherMarketEnvelopes ==
    {Envelope("heartbeat", "e", "a", EmptyDict),
     Envelope("settlement", "e", "banker", EmptyDict)}

MarketEnvelopes ==
    JoinEnvelopes \cup OfferEnvelopes \cup BidEnvelopes \cup AcceptEnvelopes
    \cup CraftStartEnvelopes \cup CraftCompleteEnvelopes \cup OtherMarketEnvelopes

\* Well-formed results, and one for each way of being ignored or rejected.
GatherResultPayloads ==
    [agent_id : Agents, item : Items, quantity : {1, 2}, success : {TRUE}]
    \cup {[agent_id |-> "a", item |-> "potato", quantity |-> q, success |-> TRUE] :
             q \in {-1, 0}}
    \cup {[agent_id |-> "", item |-> "potato", quantity |-> 1, success |-> TRUE],
          [agent_id |-> "a", item |-> "potato", quantity |-> 1, success |-> FALSE]}

GatherResultEnvelopes ==
    {Envelope("gather_result", "e", "world", p) : p \in GatherResultPayloads}

BankerWorldEnvelopes ==
    GatherResultEnvelopes \cup {Envelope("spawn", "e", "world", EmptyDict)}

TickEnvelopes ==
    {Envelope("tick", "e", "world", [tick_number |-> t]) : t \in 1 .. MaxBankerTick}

\* ------------------------------------------------------- BankerAgent
\* pydantic Settlement: quantity and total_price are Field(gt=0); a
\* ValidationError raised in _publish_settlement is swallowed by the bus
\* client's _msg_handler and nothing is published.
SettlementValid(result) == result.quantity > 0 /\ result.total_price > 0

Settlement(result) ==
    [reference_msg_id |-> result.reference_msg_id, buyer |-> result.buyer,
     seller |-> result.seller, item |-> result.item,
     quantity |-> result.quantity, total_price |-> result.total_price,
     status |-> "completed"]

\* The state bound of the model: counts and balances stay in a finite window.
InBounds(st) ==
    /\ \A a \in DOMAIN st.accounts :
          /\ st.accounts[a].wallet \in -MaxWallet .. MaxWallet
          /\ \A i \in DOMAIN st.accounts[a].inventory :
                st.accounts[a].inventory[i] \in 0 .. MaxInv
    /\ \A m \in DOMAIN st.orders : st.orders[m].quantity \in 0 .. MaxInv

on_market_message(envelope, st) ==
    IF envelope.from = "banker" /\ envelope.type = "settlement"
    THEN [state |-> st, errors |-> {}, trade |-> <<>>]
    ELSE CASE envelope.type = "join" ->
                 LET r == process_join(envelope, st)
                 IN [state |-> r.state, errors |-> r.errors, trade |-> <<>>]
           [] envelope.type = "offer" ->
                 LET r == process_offer(envelope, st)
                 IN [state |-> r.state, errors |-> r.errors, trade |-> <<>>]
           [] envelope.type = "bid" ->
                 LET r == process_bid(envelope, st)
                 IN [state |-> r.state, errors |-> r.errors, trade |-> <<>>]
           [] envelope.type = "accept" ->
                 LET r == process_accept(envelope, st)
                 IN [state |-> r.state, errors |-> r.result.errors,
                     trade |-> IF r.result.errors = {} THEN <<r.result>> ELSE <<>>]
           [] envelope.type = "craft_start" ->
                 LET r == process_craft_start(envelope, st)
                 IN [state |-> r.state, errors |-> r.errors, trade |-> <<>>]
           [] envelope.type = "craft_complete" ->
                 LET r == process_craft_complete(envelope, st)
                 IN [state |-> r.state, errors |-> r.errors, trade |-> <<>>]
           [] OTHER -> [state |-> st, errors |-> {}, trade |-> <<>>]

\* _on_market_message up to its only await (the Settlement publish).  The
\* market subscription delivers the next message only after the handler
\* returned, hence the guard on bank_pending.
BankerOnMarketMessage ==
    \E envelope \in MarketEnvelopes :
        /\ ev = Idle
        /\ bank_pending = <<>>
        /\ LET r == on_market_message(envelope, banker)
           IN /\ InBounds(r.state)
              /\ banker' = r.state
              /\ bank_pending' = IF r.trade # <<>> /\ SettlementValid(r.trade[1])
                                 THEN <<Settlement(r.trade[1])>>
                                 ELSE <<>>
              /\ ev' = [h |-> "market", env |-> envelope, errors |-> r.errors,
                        trade |-> r.trade, before |-> banker]
        /\ UNCHANGED <<bank_out, worldVars, govVars, agentVars>>

\* The order book alone: JOINs, OFFERs of b and BIDs of a under two ids, the
\* BIDs at two prices, one of which makes a BID of two cost the whole
\* starting wallet.
BookIds == OrderIds \cup {UnknownId}

BookQtys == 1 .. MaxInv

BookPrices == {PriceStep, STARTING_WALLET \div 2}

BookEnvelopes ==
    {Envelope("join", "e", f, [agent_id |-> f]) : f \in Agents}
    \cup {Envelope("offer", i, "b", p) :
             i \in BookIds,
             p \in [item : Items, quantity : BookQtys, price_per_unit : Prices,
                    expires_tick : {{}}]}
    \cup {Envelope("bid", i, "a", p) :
             i \in BookIds,
             p \in [item : Items, quantity : BookQtys,
                    max_price_per_unit : BookPrices]}

\* _on_market_message for the messages above (none of them settles a trade)
BankerOnBookMessage ==
    \E envelope \in BookEnvelopes :
        /\ ev = Idle
        /\ bank_pending = <<>>
        /\ LET r == on_market_message(envelope, banker)
           IN /\ InBounds(r.state)
              /\ banker' = r.state
              /\ ev' = [h |-> "market", env |-> envelope, errors |-> r.errors,
                        trade |-> r.trade, before |-> banker]
        /\ UNCHANGED <<bank_pending, bank_out, worldVars, govVars, agentVars>>

\* _publish_settlement: the awaited publish to /market/bank completes.
BankerPublishSettlement ==
    /\ ev = Idle
    /\ bank_pending # <<>>
    /\ bank_out' = bank_pending
    /\ bank_pending' = <<>>
    /\ ev' = [h |-> "publish_settlement", env |-> bank_pending[1]]
    /\ UNCHANGED <<banker, worldVars, govVars, agentVars>>

on_world_message(envelope, st) ==
    IF envelope.type # "gather_result" THEN [state |-> st, errors |-> {}]
    ELSE IF ~envelope.payload.success THEN [state |-> st, errors |-> {}]
    ELSE process_gather_result(envelope, st)

BankerOnWorldMessage ==
    \E envelope \in BankerWorldEnvelopes :
        LET r == on_world_message(envelope, banker)
        IN /\ ev = Idle
           /\ InBounds(r.state)
           /\ banker' = r.state
           /\ ev' = [h |-> "world", env |-> envelope, errors |-> r.errors,
                     before |-> banker]
           /\ UNCHANGED <<bank_pending, bank_out, worldVars, govVars, agentVars>>

on_tick(envelope, st) ==
    purge_expired_orders(advance_tick(st, envelope.payload.tick_number))

BankerOnTick ==
    \E envelope \in TickEnvelopes :
        /\ ev = Idle
        /\ banker' = on_tick(envelope, banker)
        /\ ev' = [h |-> "tick", env |-> envelope, before |-> banker]
        /\ UNCHANGED <<bank_pending, bank_out, worldVars, govVars, agentVars>>

\* Orders with a lifetime: OFFERs of b that never expire or expire at one of
\* the ticks, BIDs of a (a BID carries no expires_tick), and the JOINs.
MaxExpiryTick == 2

ExpiryTicks == 1 .. MaxExpiryTick

ExpiringEnvelopes ==
    {Envelope("join", "e", f, [agent_id |-> f]) : f \in Agents}
    \cup {Envelope("offer", i, "b", p) :
             i \in BookIds,
             p \in [item : Items, quantity : BookQtys, price_per_unit : Prices,
                    expires_tick : {{}} \cup {{t} : t \in ExpiryTicks}]}
    \cup {Envelope("bid", i, "a", p) :
             i \in BookIds,
             p \in [item : Items, quantity : {1},
                    max_price_per_unit : Prices]}

\* _on_market_message for the messages above (none of them settles a trade)
BankerOnExpiringMessage ==
    \E envelope \in ExpiringEnvelopes :
        /\ ev = Idle
        /\ bank_pending = <<>>
        /\ LET r == on_market_message(envelope, banker)
           IN /\ InBounds(r.state)
              /\ banker' = r.state
              /\ ev' = [h |-> "market", env |-> envelope, errors |-> r.errors,
                        trade |-> r.trade, before |-> banker]
        /\ UNCHANGED <<bank_pending, bank_out, worldVars, govVars, agentVars>>

\* The ticks arrive in the World's order: each one is the successor of the
\* last the Banker handled.
ExpiryTickEnvelopes ==
    {Envelope("tick", "e", "world", [tick_number |-> t]) : t \in ExpiryTicks}

BankerOnExpiryTick ==
    \E envelope \in ExpiryTickEnvelopes :
        /\ ev = Idle
        /\ envelope.payload.tick_number = banker.current_tick + 1
        /\ banker' = on_tick(envelope, banker)
        /\ ev' = [h |-> "tick", env |-> envelope, before |-> banker]
        /\ UNCHANGED <<bank_pending, bank_out, worldVars, govVars, agentVars>>

\* Crafting alone: JOINs, gathered potatoes and onions, CRAFT_STARTs of b (and
\* of c, who never joins) with one or two inputs, CRAFT_COMPLETEs of a, b and
\* c, and the Governor's verdicts, which reach the Banker on /market/governance
\* like every market message.
CraftItems == {"potato", "onion"}

CraftQtys == {-1, 1, 2}

CraftOutputs ==
    {EmptyDict, [soup |-> 1], [soup |-> 1, potato |-> 1], [soup |-> 0]}

CraftEnvelopes ==
    {Envelope("join", "e", f, [agent_id |-> f]) : f \in Agents}
    \cup {Envelope("craft_start", "cs", f, [inputs |-> d]) :
             f \in {"b", "c"}, d \in Dicts(CraftItems, CraftQtys)}
    \cup {Envelope("craft_complete", "cc", f, [output |-> d]) :
             f \in {"a", "b", "c"}, d \in CraftOutputs}
    \cup {Envelope("validation_result", "e", "governor",
                   [reference_msg_id |-> r, valid |-> FALSE]) :
             r \in {"cs", "cc"}}

BankerOnCraftMessage ==
    \E envelope \in CraftEnvelopes :
        /\ ev = Idle
        /\ bank_pending = <<>>
        /\ LET r == on_market_message(envelope, banker)
           IN /\ InBounds(r.state)
              /\ banker' = r.state
              /\ ev' = [h |-> "market", env |-> envelope, errors |-> r.errors,
                        trade |-> r.trade, before |-> banker]
        /\ UNCHANGED <<bank_pending, bank_out, worldVars, govVars, agentVars>>

CraftWorldEnvelopes ==
    {Envelope("gather_result", "e", "world",
              [agent_id |-> a, item |-> i, quantity |-> q, success |-> TRUE]) :
        a \in Agents, i \in CraftItems, q \in {1, 2}}

BankerOnCraftWorldMessage ==
    \E envelope \in CraftWorldEnvelopes :
        LET r == on_world_message(envelope, banker)
        IN /\ ev = Idle
           /\ InBounds(r.state)
           /\ banker' = r.state
           /\ ev' = [h |-> "world", env |-> envelope, errors |-> r.errors,
                     before |-> banker]
           /\ UNCHANGED <<bank_pending, bank_out, worldVars, govVars, agentVars>>

\* The ledger: three traders, a sells one potato to each of the others, at
\* two prices whose sum with the starting wallet does not fit the
\* significand.
MaxLedgerWallet == 300

LedgerAgents == {"a", "b", "c"}

LedgerEnvelopes ==
    {Envelope("join", "e", f, [agent_id |-> f]) : f \in LedgerAgents}
    \cup {Envelope("offer", "m1", "a",
                   [item |-> "potato", quantity |-> 1,
                    price_per_unit |-> STARTING_WALLET - 1,
                    expires_tick |-> {}]),
          Envelope("offer", "m2", "a",
                   [item |-> "potato", quantity |-> 1,
                    price_per_unit |-> PriceStep - 2,
                    expires_tick |-> {}])}
    \cup {Envelope("accept", "e", f, [reference_msg_id |-> m, quantity |-> 1]) :
             f \in {"b", "c"}, m \in {"m1", "m2"}}

LedgerInBounds(st) ==
    /\ \A a \in DOMAIN st.accounts :
          /\ st.accounts[a].wallet \in 0 .. MaxLedgerWallet
          /\ \A i \in DOMAIN st.accounts[a].inventory :
                st.accounts[a].inventory[i] \in 0 .. MaxInv

\* _on_market_message for the messages above
LedgerOnMarketMessage ==
    \E envelope \in LedgerEnvelopes :
        /\ ev = Idle
        /\ bank_pending = <<>>
        /\ LET r == on_market_message(envelope, banker)
           IN /\ LedgerInBounds(r.state)
              /\ banker' = r.state
              /\ bank_pending' = IF r.trade # <<>> /\ SettlementValid(r.trade[1])
                                 THEN <<Settlement(r.trade[1])>>
                                 ELSE <<>>
              /\ ev' = [h |-> "market", env |-> envelope, errors |-> r.errors,
                        trade |-> r.trade, before |-> banker]
        /\ UNCHANGED <<bank_out, worldVars, govVars, agentVars>>

\* At-least-once delivery: the market subscription acknowledges a message
\* after its handler returned (nats_client.py:97-109), so the stream may
\* hand the same OFFER or BID envelope to the Banker again.  bank_out keeps
\* every Settlement published, as the stream does.
MaxSettlements == 2

RedeliveryEnvelopes ==
    {Envelope("join", "e", f, [agent_id |-> f]) : f \in {"a", "b"}}
    \cup {Envelope("offer", "m1", "a",
                   [item |-> "potato", quantity |-> 1, price_per_unit |-> 1,
                    expires_tick |-> {}]),
          Envelope("bid", "m2", "b",
                   [item |-> "potato", quantity |-> 1, max_price_per_unit |-> 1])}
    \cup {Envelope("accept", "e", "b", [reference_msg_id |-> "m1", quantity |-> q]) :
             q \in 1 .. 2}
    \cup {Envelope("accept", "e", "a", [reference_msg_id |-> "m2", quantity |-> 1])}

\* _on_market_message for the messages above, each deliverable any number
\* of times
RedeliveryOnMarketMessage ==
    \E envelope \in RedeliveryEnvelopes :
        /\ ev = Idle
        /\ bank_pending = <<>>
        /\ LET r == on_market_message(envelope, banker)
           IN /\ InBounds(r.state)
              /\ banker' = r.state
              /\ bank_pending' = IF r.trade # <<>> /\ SettlementValid(r.trade[1])
                                 THEN <<Settlement(r.trade[1])>>
                                 ELSE <<>>
              /\ ev' = [h |-> "market", env |-> envelope, errors |-> r.errors,
                        trade |-> r.trade, before |-> banker]
        /\ UNCHANGED <<bank_out, worldVars, govVars, agentVars>>

\* _publish_settlement completes; the stream retains the Settlement
RedeliveryPublishSettlement ==
    /\ ev = Idle
    /\ bank_pending # <<>>
    /\ Len(bank_out) < MaxSettlements
    /\ bank_out' = bank_out \o bank_pending
    /\ bank_pending' = <<>>
    /\ ev' = [h |-> "publish_settlement", env |-> bank_pending[1]]
    /\ UNCHANGED <<banker, worldVars, govVars, agentVars>>

\* Expiring OFFERs that can be accepted: JOINs, an OFFER of a that expires
\* at tick 1 and one that never expires, ACCEPTs of b, and the ticks in the
\* World's order.  Nothing orders an OFFER's delivery on /market/> before
\* the Tick that would purge it.
LateEnvelopes ==
    {Envelope("join", "e", f, [agent_id |-> f]) : f \in {"a", "b"}}
    \cup {Envelope("offer", "m1", "a",
                   [item |-> "potato", quantity |-> 1, price_per_unit |-> 1,
                    expires_tick |-> {1}]),
          Envelope("offer", "m2", "a",
                   [item |-> "potato", quantity |-> 1, price_per_unit |-> 1,
                    expires_tick |-> {}])}
    \cup {Envelope("accept", "e", "b", [reference_msg_id |-> m, quantity |-> 1]) :
             m \in {"m1", "m2"}}

\* _on_market_message for the messages above
LateOnMarketMessage ==
    \E envelope \in LateEnvelopes :
        /\ ev = Idle
        /\ bank_pending = <<>>
        /\ LET r == on_market_message(envelope, banker)
           IN /\ InBounds(r.state)
              /\ banker' = r.state
              /\ bank_pending' = IF r.trade # <<>> /\ SettlementValid(r.trade[1])
                                 THEN <<Settlement(r.trade[1])>>
                                 ELSE <<>>
              /\ ev' = [h |-> "market", env |-> envelope, errors |-> r.errors,
                        trade |-> r.trade, before |-> banker]
        /\ UNCHANGED <<bank_out, worldVars, govVars, agentVars>>

\* ----------------------------------------------------------- WorldState
\* the configured spawn table (WorldState._spawn_table), two items
spawn_table == [potato |-> PotatoSpawn, onion |-> 1]

WorldState0 == [current_tick |-> 0, active_spawn |-> <<>>]

SpawnPool(spawn_id, tick, remaining) ==
    [spawn_id |-> spawn_id, tick |-> tick, remaining |-> remaining]

\* variant: the tick counter advances by two
world_advance_tick_by_two(st) == [st EXCEPT !.current_tick = @ + 2]

world_advance_tick(st) == [st EXCEPT !.current_tick = @ + 1]

\* uuid.uuid4(): a value no earlier call returned
uuid4(issued) == issued + 1

create_spawn(st, issued) ==
    [st EXCEPT !.active_spawn =
        <<SpawnPool(uuid4(issued), st.current_tick, spawn_table)>>]

\* variant: grants what was asked for
granted_quantity_as_asked(quantity, available) == quantity

granted_quantity(quantity, available) == Min(quantity, available)

\* variant: the spawn id is not compared with the active pool's
try_gather_any_spawn(st, spawn_id, item, quantity) ==
    IF st.active_spawn = <<>>
    THEN [state |-> st, granted |-> 0, error |-> {<<"No active spawn">>}]
    ELSE LET available == Get(st.active_spawn[1].remaining, item, 0)
         IN IF available = 0
            THEN [state |-> st, granted |-> 0,
                  error |-> {<<"No", item, "remaining in spawn">>}]
            ELSE LET g == granted_quantity(quantity, available)
                 IN [state |-> [st EXCEPT !.active_spawn[1].remaining =
                                              Put(@, item, available - g)],
                     granted |-> g, error |-> {}]

try_gather(st, spawn_id, item, quantity) ==
    IF st.active_spawn = <<>>
    THEN [state |-> st, granted |-> 0, error |-> {<<"No active spawn">>}]
    ELSE IF st.active_spawn[1].spawn_id # spawn_id
    THEN [state |-> st, granted |-> 0, error |-> {<<"Spawn expired or not found">>}]
    ELSE LET available == Get(st.active_spawn[1].remaining, item, 0)
         IN IF available = 0
            THEN [state |-> st, granted |-> 0,
                  error |-> {<<"No", item, "remaining in spawn">>}]
            ELSE LET g == granted_quantity(quantity, available)
                 IN [state |-> [st EXCEPT !.active_spawn[1].remaining =
                                              Put(@, item, available - g)],
                     granted |-> g, error |-> {}]

\* ---------------------------------------------------------- world rules
process_tick(st, issued) ==
    LET s1 == create_spawn(world_advance_tick(st), issued)
    IN [state |-> s1, tick |-> s1.current_tick,
        spawn_id |-> s1.active_spawn[1].spawn_id,
        items |-> s1.active_spawn[1].remaining]

\* variant: a partial grant is reported like a full one
process_gather_never_partial(envelope, st) ==
    LET p == envelope.payload
    IN IF p.spawn_id = 0
       THEN [state |-> st, granted |-> 0, success |-> FALSE,
             reason |-> {<<"Missing spawn_id">>}]
       ELSE IF p.item = ""
       THEN [state |-> st, granted |-> 0, success |-> FALSE,
             reason |-> {<<"Missing item">>}]
       ELSE IF p.quantity <= 0
       THEN [state |-> st, granted |-> 0, success |-> FALSE,
             reason |-> {<<"Quantity must be positive">>}]
       ELSE LET r == try_gather(st, p.spawn_id, p.item, p.quantity)
            IN IF r.error # {}
               THEN [state |-> r.state, granted |-> 0, success |-> FALSE,
                     reason |-> r.error]
               ELSE [state |-> r.state, granted |-> r.granted, success |-> TRUE,
                     reason |-> {}]

process_gather(envelope, st) ==
    LET p == envelope.payload
    IN IF p.spawn_id = 0
       THEN [state |-> st, granted |-> 0, success |-> FALSE,
             reason |-> {<<"Missing spawn_id">>}]
       ELSE IF p.item = ""
       THEN [state |-> st, granted |-> 0, success |-> FALSE,
             reason |-> {<<"Missing item">>}]
       ELSE IF p.quantity <= 0
       THEN [state |-> st, granted |-> 0, success |-> FALSE,
             reason |-> {<<"Quantity must be positive">>}]
       ELSE LET r == try_gather(st, p.spawn_id, p.item, p.quantity)
            IN IF r.error # {}
               THEN [state |-> r.state, granted |-> 0, success |-> FALSE,
                     reason |-> r.error]
               ELSE [state |-> r.state, granted |-> r.granted, success |-> TRUE,
                     reason |-> IF r.granted < p.quantity
                                THEN {<<"Partial: only", r.granted, "remaining">>}
                                ELSE {}]

\* ---------------------------------------------------------- WorldEngine
SpawnIds == 0 .. MaxTick
GatherItems == {"potato", "onion", "gold"}
GatherQtys == {1, MaxGather}

\* Well-formed payloads, and one payload for each way of being ill-formed
\* (empty spawn id, empty item, zero and negative quantity).
GatherPayloads ==
    [spawn_id : SpawnIds \ {0}, item : GatherItems, quantity : GatherQtys]
    \cup {[spawn_id |-> 0, item |-> "potato", quantity |-> 1],
          [spawn_id |-> 1, item |-> "", quantity |-> 1],
          [spawn_id |-> 1, item |-> "potato", quantity |-> 0],
          [spawn_id |-> 1, item |-> "potato", quantity |-> -1]}

GatherEnvelopes ==
    {Envelope("gather", "g1", f, p) : f \in Agents, p \in GatherPayloads}
    \cup {Envelope("gather", "g1", "world",
                   [spawn_id |-> 1, item |-> "potato", quantity |-> 1])}

NatureEnvelopes ==
    GatherEnvelopes
    \cup {Envelope(t, "e", "world", EmptyDict) : t \in {"spawn", "gather_result"}}
    \cup {Envelope("spawn", "e", f, EmptyDict) : f \in Agents}

GatherResult(envelope, r) ==
    [reference_msg_id |-> envelope.id, spawn_id |-> envelope.payload.spawn_id,
     agent_id |-> envelope.from, item |-> envelope.payload.item,
     quantity |-> r.granted, success |-> r.success, reason |-> r.reason]

\* _do_tick up to its first await: process_tick, then the Tick publish starts.
WorldDoTick ==
    /\ ev = Idle
    /\ w_pc.at = "loop"
    /\ world.current_tick < MaxTick
    /\ LET r == process_tick(world, uuid_count)
       IN /\ world' = r.state
          /\ uuid_count' = uuid_count + 1
          /\ w_pc' = [at |-> "publish_tick", tick_number |-> r.tick,
                      spawn_id |-> r.spawn_id, items |-> r.items]
          /\ ev' = [h |-> "process_tick", tick |-> r.tick]
    /\ UNCHANGED <<world_pending, nature_spawn, tick_out, granted, bankerVars, govVars, agentVars>>

\* The Tick publish completes; the Spawn message is built and its publish starts.
WorldPublishTick ==
    /\ ev = Idle
    /\ w_pc.at = "publish_tick"
    /\ tick_out' = w_pc.tick_number
    /\ w_pc' = [w_pc EXCEPT !.at = "publish_spawn"]
    /\ ev' = [h |-> "publish_tick", tick |-> w_pc.tick_number]
    /\ UNCHANGED <<world, uuid_count, world_pending, nature_spawn, granted,
                   bankerVars, govVars, agentVars>>

\* The Spawn publish completes; the loop goes to sleep.
WorldPublishSpawn ==
    /\ ev = Idle
    /\ w_pc.at = "publish_spawn"
    /\ nature_spawn' = <<[spawn_id |-> w_pc.spawn_id, tick |-> w_pc.tick_number,
                          items |-> w_pc.items]>>
    /\ w_pc' = [at |-> "loop"]
    /\ ev' = [h |-> "publish_spawn", tick |-> w_pc.tick_number]
    /\ UNCHANGED <<world, uuid_count, world_pending, tick_out, granted,
                   bankerVars, govVars, agentVars>>

\* variant: the World's own messages are not skipped
on_nature_message_answers_itself(envelope, st) ==
    IF envelope.type # "gather"
    THEN [state |-> st, result |-> <<>>]
    ELSE LET r == process_gather(envelope, st)
         IN [state |-> r.state, result |-> <<GatherResult(envelope, r)>>]

on_nature_message(envelope, st) ==
    IF envelope.from = "world" \/ envelope.type # "gather"
    THEN [state |-> st, result |-> <<>>]
    ELSE LET r == process_gather(envelope, st)
         IN [state |-> r.state, result |-> <<GatherResult(envelope, r)>>]

\* GatherResults issued so far, summed per spawn id and item
record_granted(g, result) ==
    IF result = <<>> \/ result[1].quantity = 0 THEN g
    ELSE [g EXCEPT ![result[1].spawn_id] =
             Put(@, result[1].item, Get(@, result[1].item, 0) + result[1].quantity)]

\* _on_nature_message up to its only await (the GatherResult publish); it
\* can run at every suspension point of the tick loop.
WorldOnNatureMessage ==
    \E envelope \in NatureEnvelopes :
        /\ ev = Idle
        /\ world_pending = <<>>
        /\ LET r == on_nature_message(envelope, world)
           IN /\ world' = r.state
              /\ world_pending' = r.result
              /\ granted' = record_granted(granted, r.result)
              /\ ev' = [h |-> "nature", env |-> envelope, result |-> r.result,
                        before |-> world, issued |-> uuid_count]
        /\ UNCHANGED <<uuid_count, w_pc, nature_spawn, tick_out, bankerVars, govVars, agentVars>>

\* The GatherResult publish completes.
WorldPublishGatherResult ==
    /\ ev = Idle
    /\ world_pending # <<>>
    /\ world_pending' = <<>>
    /\ ev' = [h |-> "publish_gather_result", env |-> world_pending[1]]
    /\ UNCHANGED <<world, uuid_count, w_pc, nature_spawn, tick_out, granted,
                   bankerVars, govVars, agentVars>>

\* -------------------------------------------------------- GovernorState
MAX_ACTIONS_PER_TICK == 5
HEARTBEAT_TIMEOUT_TICKS == 10

ActiveCraft(recipe, started_tick, estimated_ticks) ==
    [recipe |-> recipe, started_tick |-> started_tick,
     estimated_ticks |-> estimated_ticks]

GovernorState0 ==
    [current_tick |-> 0, actions_this_tick |-> EmptyDict,
     last_heartbeat_tick |-> EmptyDict, active_crafts |-> EmptyDict,
     known_agents |-> {}]

gov_advance_tick(st, tick) ==
    [st EXCEPT !.current_tick = tick, !.actions_this_tick = EmptyDict]

record_action(st, agent_id) ==
    [st EXCEPT !.actions_this_tick = Put(@, agent_id, Get(@, agent_id, 0) + 1)]

get_action_count(st, agent_id) == Get(st.actions_this_tick, agent_id, 0)

is_rate_limited(st, agent_id) ==
    get_action_count(st, agent_id) >= MAX_ACTIONS_PER_TICK

record_heartbeat(st, agent_id) ==
    [st EXCEPT !.last_heartbeat_tick = Put(@, agent_id, st.current_tick)]

\* variant: a gap of exactly the timeout already counts as inactive
is_inactive_at_timeout(st, agent_id) ==
    IF agent_id \notin DOMAIN st.last_heartbeat_tick THEN FALSE
    ELSE st.current_tick - st.last_heartbeat_tick[agent_id]
             >= HEARTBEAT_TIMEOUT_TICKS

is_inactive(st, agent_id) ==
    IF agent_id \notin DOMAIN st.last_heartbeat_tick THEN FALSE
    ELSE st.current_tick - st.last_heartbeat_tick[agent_id]
             > HEARTBEAT_TIMEOUT_TICKS

register_agent(st, agent_id) ==
    [st EXCEPT !.known_agents = @ \cup {agent_id}]

start_craft(st, agent_id, recipe, estimated_ticks) ==
    [st EXCEPT !.active_crafts =
        Put(@, agent_id, ActiveCraft(recipe, st.current_tick, estimated_ticks))]

complete_craft(st, agent_id) ==
    IF agent_id \in DOMAIN st.active_crafts
    THEN [st EXCEPT !.active_crafts = Del(@, agent_id)]
    ELSE st

\* variant: no agent is ever seen as crafting
is_crafting_never(st, agent_id) == FALSE

is_crafting(st, agent_id) == agent_id \in DOMAIN st.active_crafts

\* ------------------------------------------------------------ catalogue
\* the item names of the catalogue
ITEMS == {"potato", "onion", "wood", "nails", "stone",
          "soup", "shelf", "wall", "furniture", "house"}

\* two of the five recipes, with their inputs and crafting times
RECIPES ==
    [soup |-> [inputs |-> [potato |-> 2, onion |-> 1], output |-> "soup",
               output_quantity |-> 1, ticks |-> 2],
     shelf |-> [inputs |-> [wood |-> 3, nails |-> 2], output |-> "shelf",
                output_quantity |-> 1, ticks |-> 3]]

is_valid_item(name) == name \in ITEMS

is_valid_recipe(name) == name \in DOMAIN RECIPES

\* ----------------------------------------------------- validate_message
\* The payload models: the fields a payload must have, and those declared
\* Field(gt=0).  (The types of the fields' values are not modelled.)
RequiredFields(type) ==
    CASE type = "offer" -> {"item", "quantity", "price_per_unit"}
      [] type = "bid" -> {"item", "quantity", "max_price_per_unit"}
      [] type = "accept" -> {"reference_msg_id", "quantity"}
      [] type = "counter" -> {"reference_msg_id", "proposed_price", "quantity"}
      [] type = "craft_start" -> {"recipe", "inputs", "estimated_ticks"}
      [] type = "craft_complete" -> {"recipe", "output", "agent"}
      [] type = "join" -> {"agent_id", "name", "description"}
      [] type = "heartbeat" -> {"agent_id", "wallet", "inventory_count"}
      [] type = "tick" -> {"tick_number", "timestamp"}
      [] type = "settlement" -> {"reference_msg_id", "buyer", "seller", "item",
                                 "quantity", "total_price"}
      [] type = "validation_result" -> {"reference_msg_id", "valid"}
      [] OTHER -> {}

PositiveFields(type) ==
    CASE type = "offer" -> {"quantity", "price_per_unit"}
      [] type = "bid" -> {"quantity", "max_price_per_unit"}
      [] type = "accept" -> {"quantity"}
      [] type = "counter" -> {"proposed_price", "quantity"}
      [] type = "craft_start" -> {"estimated_ticks"}
      [] type = "tick" -> {"tick_number"}
      [] type = "settlement" -> {"quantity", "total_price"}
      [] OTHER -> {}

validate_message(envelope) ==
    LET p == envelope.payload
    IN (IF envelope.from = "" THEN {<<"'from' field must not be empty">>} ELSE {})
       \cup (IF envelope.topic = ""
             THEN {<<"'topic' field must not be empty">>} ELSE {})
       \cup {<<"payload", k, "Field required">> :
                k \in RequiredFields(envelope.type) \ DOMAIN p}
       \cup {<<"payload", k, "Input should be greater than 0">> :
                k \in {f \in PositiveFields(envelope.type) \cap DOMAIN p :
                          p[f] <= 0}}

\* ------------------------------------------------------- governor rules
validate_offer(envelope) ==
    LET item == Get(envelope.payload, "item", "")
    IN IF ~is_valid_item(item) THEN {<<"Unknown item", item>>} ELSE {}

validate_bid(envelope) ==
    LET item == Get(envelope.payload, "item", "")
    IN IF ~is_valid_item(item) THEN {<<"Unknown item", item>>} ELSE {}

validate_accept(envelope) ==
    IF Get(envelope.payload, "reference_msg_id", "") = ""
    THEN {<<"Accept missing reference_msg_id">>} ELSE {}

validate_counter(envelope) ==
    IF Get(envelope.payload, "reference_msg_id", "") = ""
    THEN {<<"Counter missing reference_msg_id">>} ELSE {}

\* the craft is recorded when this function's own error list is empty
validate_craft_start(envelope, st) ==
    LET agent_id == envelope.from
        recipe_name == Get(envelope.payload, "recipe", "")
    IN IF ~is_valid_recipe(recipe_name)
       THEN [state |-> st, errors |-> {<<"Unknown recipe", recipe_name>>}]
       ELSE
       LET recipe == RECIPES[recipe_name]
           errors ==
               (IF Get(envelope.payload, "inputs", EmptyDict) # recipe.inputs
                THEN {<<"Inputs mismatch", recipe_name>>} ELSE {})
               \cup (IF Get(envelope.payload, "estimated_ticks", 0) # recipe.ticks
                     THEN {<<"Estimated ticks mismatch", recipe_name>>} ELSE {})
               \cup (IF is_crafting(st, agent_id)
                     THEN {<<"already crafting", agent_id,
                             st.active_crafts[agent_id].recipe>>}
                     ELSE {})
       IN [state |-> IF errors = {}
                     THEN start_craft(st, agent_id, recipe_name, recipe.ticks)
                     ELSE st,
           errors |-> errors]

validate_craft_complete(envelope, st) ==
    LET agent_id == envelope.from
    IN IF ~is_crafting(st, agent_id)
       THEN [state |-> st, errors |-> {<<"no active craft", agent_id>>}]
       ELSE [state |-> complete_craft(st, agent_id), errors |-> {}]

handle_join(envelope, st) ==
    register_agent(st, Get(envelope.payload, "agent_id", envelope.from))

handle_heartbeat(envelope, st) == record_heartbeat(st, envelope.from)

inactive_errors(st, agent_id) ==
    IF is_inactive(st, agent_id) THEN {<<"inactive", agent_id>>} ELSE {}

\* variant: the per-type rules run before the rate limit is looked at
validate_business_rules_limits_last(envelope, st) ==
    LET agent_id == envelope.from
        msg_type == envelope.type
        r == CASE msg_type = "offer" ->
                    [state |-> st, errors |-> validate_offer(envelope)]
               [] msg_type = "bid" ->
                    [state |-> st, errors |-> validate_bid(envelope)]
               [] msg_type = "accept" ->
                    [state |-> st, errors |-> validate_accept(envelope)]
               [] msg_type = "counter" ->
                    [state |-> st, errors |-> validate_counter(envelope)]
               [] msg_type = "craft_start" -> validate_craft_start(envelope, st)
               [] msg_type = "craft_complete" ->
                    validate_craft_complete(envelope, st)
               [] msg_type = "join" ->
                    [state |-> handle_join(envelope, st), errors |-> {}]
               [] msg_type = "heartbeat" ->
                    [state |-> handle_heartbeat(envelope, st), errors |-> {}]
               [] OTHER -> [state |-> st, errors |-> {}]
    IN IF is_rate_limited(st, agent_id)
       THEN [state |-> r.state, errors |-> {<<"Rate limited", agent_id>>}]
       ELSE [state |-> r.state,
             errors |-> inactive_errors(st, agent_id) \cup r.errors]

validate_business_rules(envelope, st) ==
    LET agent_id == envelope.from
        msg_type == envelope.type
    IN IF is_rate_limited(st, agent_id)
       THEN [state |-> st, errors |-> {<<"Rate limited", agent_id>>}]
       ELSE
       LET r == CASE msg_type = "offer" ->
                       [state |-> st, errors |-> validate_offer(envelope)]
                  [] msg_type = "bid" ->
                       [state |-> st, errors |-> validate_bid(envelope)]
                  [] msg_type = "accept" ->
                       [state |-> st, errors |-> validate_accept(envelope)]
                  [] msg_type = "counter" ->
                       [state |-> st, errors |-> validate_counter(envelope)]
                  [] msg_type = "craft_start" -> validate_craft_start(envelope, st)
                  [] msg_type = "craft_complete" ->
                       validate_craft_complete(envelope, st)
                  [] msg_type = "join" ->
                       [state |-> handle_join(envelope, st), errors |-> {}]
                  [] msg_type = "heartbeat" ->
                       [state |-> handle_heartbeat(envelope, st), errors |-> {}]
                  [] OTHER -> [state |-> st, errors |-> {}]
       IN [state |-> r.state,
           errors |-> inactive_errors(st, agent_id) \cup r.errors]

\* -------------------------------------------------------- GovernorAgent
GovEnvelope(type, id, from, topic, payload) ==
    [type |-> type, id |-> id, from |-> from, topic |-> topic,
     payload |-> payload]

HeartbeatPayload(a) == [agent_id |-> a, wallet |-> STARTING_WALLET,
                        inventory_count |-> 0]

\* a well-formed CRAFT_START, one for each business rule it can break, and
\* one that breaks the payload schema (estimated_ticks not > 0)
CraftStartPayloads ==
    {[recipe |-> "soup", inputs |-> RECIPES["soup"].inputs,
      estimated_ticks |-> RECIPES["soup"].ticks],
     [recipe |-> "stew", inputs |-> RECIPES["soup"].inputs,
      estimated_ticks |-> RECIPES["soup"].ticks],
     [recipe |-> "soup", inputs |-> RECIPES["shelf"].inputs,
      estimated_ticks |-> RECIPES["soup"].ticks],
     [recipe |-> "soup", inputs |-> RECIPES["soup"].inputs,
      estimated_ticks |-> RECIPES["shelf"].ticks],
     [recipe |-> "soup", inputs |-> RECIPES["soup"].inputs,
      estimated_ticks |-> 0]}

\* What agent a sends: every kind of message the rules look at, with the
\* ways of being rejected; agent b sends a few; the Governor hears its own
\* ValidationResults on /market/governance.
GovMarketEnvelopes ==
    {GovEnvelope("heartbeat", i, "a", "/market/square", HeartbeatPayload("a")) :
        i \in {"m1", "m2"}}
    \cup {GovEnvelope("heartbeat", "e", "a", "", HeartbeatPayload("a")),
          GovEnvelope("join", "e", "a", "/market/square",
                      [agent_id |-> "a", name |-> "a", description |-> ""]),
          GovEnvelope("craft_complete", "e", "a", "/market/food",
                      [recipe |-> "soup", output |-> [soup |-> 1], agent |-> "a"]),
          GovEnvelope("offer", "e", "a", "/market/raw-goods",
                      [item |-> "gold", quantity |-> 1, price_per_unit |-> PriceStep]),
          GovEnvelope("offer", "e", "b", "/market/raw-goods",
                      [item |-> "potato", quantity |-> 1, price_per_unit |-> PriceStep]),
          GovEnvelope("offer", "e", "b", "/market/raw-goods",
                      [item |-> "potato", price_per_unit |-> PriceStep]),
          GovEnvelope("validation_result", "e", "a", "/market/governance",
                      [reference_msg_id |-> "m1", valid |-> TRUE]),
          GovEnvelope("validation_result", "e", "governor", "/market/governance",
                      [reference_msg_id |-> "m1", valid |-> TRUE])}
    \cup {GovEnvelope("craft_start", "e", "a", "/market/food", p) :
             p \in CraftStartPayloads}

\* how many messages of one sender are followed between two Ticks
SenderCap(from) == IF from = "a" THEN MaxActions ELSE MaxOtherActions

GovTicks == {1, HEARTBEAT_TIMEOUT_TICKS, HEARTBEAT_TIMEOUT_TICKS + 1}

GovTickEnvelopes ==
    {GovEnvelope("tick", "e", "world", "/system/tick", [tick_number |-> t]) :
        t \in GovTicks}

ValidationResult(original, valid, reason) ==
    [reference_msg_id |-> original.id, valid |-> valid, reason |-> reason,
     action |-> original.type]

\* variant: the Governor's own ValidationResults are validated like any message
governor_on_market_message_hears_itself(envelope, st) ==
    LET structural_errors == validate_message(envelope)
    IN IF structural_errors # {}
       THEN [state |-> st,
             result |-> <<ValidationResult(envelope, FALSE, structural_errors)>>,
             then_record |-> <<envelope.from>>]
       ELSE
       LET b == validate_business_rules(envelope, st)
       IN [state |-> record_action(b.state, envelope.from),
           result |-> <<ValidationResult(envelope, b.errors = {}, b.errors)>>,
           then_record |-> <<>>]

\* _on_market_message up to its await of _publish_result: the result being
\* published, and (structural rejection) the sender whose action is recorded
\* only after the publish completes.
governor_on_market_message(envelope, st) ==
    IF envelope.from = "governor" /\ envelope.type = "validation_result"
    THEN [state |-> st, result |-> <<>>, then_record |-> <<>>]
    ELSE
    LET structural_errors == validate_message(envelope)
    IN IF structural_errors # {}
       THEN [state |-> st,
             result |-> <<ValidationResult(envelope, FALSE, structural_errors)>>,
             then_record |-> <<envelope.from>>]
       ELSE
       LET b == validate_business_rules(envelope, st)
       IN [state |-> record_action(b.state, envelope.from),
           result |-> <<ValidationResult(envelope, b.errors = {}, b.errors)>>,
           then_record |-> <<>>]

GovernorOnMarketMessage ==
    \E envelope \in GovMarketEnvelopes :
        /\ ev = Idle
        /\ gov_pending = <<>>
        /\ get_action_count(gov, envelope.from) < SenderCap(envelope.from)
        /\ Get(gov_seen, envelope.from, 0) < SenderCap(envelope.from)
        /\ LET r == governor_on_market_message(envelope, gov)
           IN /\ gov' = r.state
              /\ gov_pending' = IF r.result = <<>> THEN <<>>
                                ELSE <<[result |-> r.result[1],
                                        then_record |-> r.then_record]>>
              /\ gov_seen' = IF r.result = <<>> THEN gov_seen
                             ELSE Put(gov_seen, envelope.from,
                                      Get(gov_seen, envelope.from, 0) + 1)
              /\ ev' = [h |-> "gov_market", env |-> envelope,
                        result |-> r.result, before |-> gov, seen |-> gov_seen]
        /\ UNCHANGED <<bankerVars, worldVars, agentVars>>

\* The ValidationResult publish completes; the handler resumes and, after a
\* structural rejection, records the action.
GovernorPublishResult ==
    /\ ev = Idle
    /\ gov_pending # <<>>
    /\ gov' = IF gov_pending[1].then_record = <<>> THEN gov
              ELSE record_action(gov, gov_pending[1].then_record[1])
    /\ gov_pending' = <<>>
    /\ ev' = [h |-> "publish_result", result |-> gov_pending[1].result,
              before |-> gov]
    /\ UNCHANGED <<gov_seen, bankerVars, worldVars, agentVars>>

\* _on_tick: its own subscription, so it also runs while the market handler
\* waits for a publish.
governor_on_tick(envelope, st) ==
    gov_advance_tick(st, Get(envelope.payload, "tick_number", 0))

GovernorOnTick ==
    \E envelope \in GovTickEnvelopes :
        /\ ev = Idle
        /\ gov' = governor_on_tick(envelope, gov)
        /\ gov_seen' = EmptyDict
        /\ ev' = [h |-> "gov_tick", env |-> envelope, before |-> gov]
        /\ UNCHANGED <<gov_pending, bankerVars, worldVars, agentVars>>

\* -------------------------------------------------------------- AgentState
\* The runtime's local mirror (agent/state.py).  pending_offers and
\* observed_offers are kept for the strategy alone: the runtime writes them
\* and never reads them, and decide is an arbitrary function here.
CraftingJob(recipe, started_tick, duration_ticks) ==
    [recipe |-> recipe, started_tick |-> started_tick,
     duration_ticks |-> duration_ticks]

complete_at_tick(job) == job.started_tick + job.duration_ticks

\* variant: a job is done one tick after its completion tick
is_done_late(job, current_tick) == current_tick > complete_at_tick(job)

is_done(job, current_tick) == current_tick >= complete_at_tick(job)

AgentState0 ==
    [joined |-> FALSE, wallet |-> 0, inventory |-> EmptyDict,
     current_tick |-> 0, last_heartbeat_tick |-> 0,
     current_spawn_id |-> {}, current_spawn_items |-> EmptyDict,
     active_craft |-> {}, observed_offers |-> <<>>, actions_this_tick |-> 0]

needs_heartbeat(st, interval) ==
    st.current_tick - st.last_heartbeat_tick >= interval

Max(x, y) == IF x >= y THEN x ELSE y

\* variant: one action more than the budget
remaining_actions_generous(st, max_actions) ==
    Max(0, max_actions + 1 - st.actions_this_tick)

remaining_actions(st, max_actions) == Max(0, max_actions - st.actions_this_tick)

add_inventory(st, item, quantity) ==
    [st EXCEPT !.inventory = Put(@, item, Get(@, item, 0) + quantity)]

remove_inventory(st, item, quantity) ==
    LET current == Get(st.inventory, item, 0)
    IN IF current < quantity THEN st
       ELSE IF current - quantity = 0
            THEN [st EXCEPT !.inventory = Del(@, item)]
            ELSE [st EXCEPT !.inventory = Put(@, item, current - quantity)]

agent_advance_tick(st, tick) ==
    [st EXCEPT !.current_tick = tick, !.actions_this_tick = 0,
               !.observed_offers = <<>>]

\* ------------------------------------------------------------ TradingAgent
AGENT_ID == "a"

AGENT_MAX_ACTIONS_PER_TICK == 5

HEARTBEAT_INTERVAL == 5

CATEGORY ==
    [potato |-> "raw", onion |-> "raw", wood |-> "raw", nails |-> "raw",
     stone |-> "raw", soup |-> "food", shelf |-> "material",
     wall |-> "material", furniture |-> "housing", house |-> "housing"]

CATEGORY_TOPIC ==
    [raw |-> "/market/raw-goods", food |-> "/market/food",
     material |-> "/market/materials", housing |-> "/market/housing"]

\* topic_for_item raises ValueError for a name outside the catalogue
topic_for_item(item_name) == CATEGORY_TOPIC[CATEGORY[item_name]]

Action(kind, params) == [kind |-> kind, params |-> params]

JoinAction == Action("join", EmptyDict)

HeartbeatAction == Action("heartbeat", EmptyDict)

CraftCompleteAction(recipe) == Action("craft_complete", [recipe |-> recipe])

\* variant: an action that raises is passed over like a GATHER with no spawn
execute_outcome_skips_failures(st, action) ==
    CASE action.kind = "gather" ->
             IF Get(action.params, "spawn_id", st.current_spawn_id) = {}
             THEN "skip" ELSE "publish"
      [] action.kind \in {"offer", "bid"} ->
             IF action.params.item \notin ITEMS \/ action.params.quantity <= 0
             THEN "skip" ELSE "publish"
      [] action.kind = "accept" ->
             IF action.params.quantity <= 0 THEN "skip" ELSE "publish"
      [] action.kind \in {"craft_start", "craft_complete"} ->
             IF action.params.recipe \notin DOMAIN RECIPES
             THEN "skip" ELSE "publish"
      [] OTHER -> "publish"

\* How _execute_action(action) ends in state st: "skip" (the GATHER branch
\* returns before it publishes), "raise" (a KeyError, a ValueError or a
\* pydantic ValidationError leaves _execute_action and _on_tick; the bus
\* client's _msg_handler logs it), or "publish".
execute_outcome(st, action) ==
    CASE action.kind = "gather" ->
             IF Get(action.params, "spawn_id", st.current_spawn_id) = {}
             THEN "skip" ELSE "publish"
      [] action.kind \in {"offer", "bid"} ->
             IF action.params.item \notin ITEMS \/ action.params.quantity <= 0
             THEN "raise" ELSE "publish"
      [] action.kind = "accept" ->
             IF action.params.quantity <= 0 THEN "raise" ELSE "publish"
      [] action.kind \in {"craft_start", "craft_complete"} ->
             IF action.params.recipe \notin DOMAIN RECIPES
             THEN "raise" ELSE "publish"
      [] OTHER -> "publish"

RECURSIVE remove_all(_, _, _)
remove_all(st, inputs, keys) ==
    IF keys = {} THEN st
    ELSE LET item == CHOOSE k \in keys : TRUE
         IN remove_all(remove_inventory(st, item, inputs[item]),
                       inputs, keys \ {item})

\* _execute_action up to its await: only CRAFT_START writes the state before
\* it publishes (the inputs leave the local inventory).
before_publish(st, action) ==
    IF action.kind = "craft_start"
    THEN LET inputs == RECIPES[action.params.recipe].inputs
         IN remove_all(st, inputs, DOMAIN inputs)
    ELSE st

\* create_message: the envelope _execute_action publishes.  The id is a
\* fresh uuid4: the pair of the tick and the number of messages this run of
\* _on_tick published before it.
AgentEnvelope(st, type, topic, n, payload) ==
    [type |-> type, id |-> <<AGENT_ID, st.current_tick, n>>, from |-> AGENT_ID,
     topic |-> topic, tick |-> st.current_tick, payload |-> payload]

\* sum(self._state.inventory.values())
RECURSIVE inventory_total(_, _)
inventory_total(inventory, items) ==
    IF items = {} THEN 0
    ELSE LET i == CHOOSE x \in items : TRUE
         IN inventory[i] + inventory_total(inventory, items \ {i})

action_message(st, action, n) ==
    LET p == action.params
    IN CASE action.kind = "join" ->
                AgentEnvelope(st, "join", "/market/square", n,
                              [agent_id |-> AGENT_ID, name |-> "",
                               description |-> ""])
         [] action.kind = "heartbeat" ->
                AgentEnvelope(st, "heartbeat", "/market/square", n,
                              [agent_id |-> AGENT_ID, wallet |-> st.wallet,
                               inventory_count |->
                                   inventory_total(st.inventory,
                                                   DOMAIN st.inventory)])
         [] action.kind = "gather" ->
                LET spawn_id == Get(p, "spawn_id", st.current_spawn_id)
                IN AgentEnvelope(st, "gather", "/world/nature", n,
                                 [spawn_id |-> CHOOSE s \in spawn_id : TRUE,
                                  item |-> p.item, quantity |-> p.quantity])
         [] action.kind = "offer" ->
                AgentEnvelope(st, "offer", topic_for_item(p.item), n,
                              [item |-> p.item, quantity |-> p.quantity,
                               price_per_unit |-> p.price_per_unit,
                               expires_tick |-> {}])
         [] action.kind = "bid" ->
                AgentEnvelope(st, "bid", topic_for_item(p.item), n,
                              [item |-> p.item, quantity |-> p.quantity,
                               max_price_per_unit |-> p.max_price_per_unit])
         [] action.kind = "accept" ->
                AgentEnvelope(st, "accept", Get(p, "topic", "/market/square"), n,
                              [reference_msg_id |-> p.reference_msg_id,
                               quantity |-> p.quantity])
         [] action.kind = "craft_start" ->
                LET recipe == RECIPES[p.recipe]
                IN AgentEnvelope(st, "craft_start", topic_for_item(recipe.output), n,
                                 [recipe |-> p.recipe, inputs |-> recipe.inputs,
                                  estimated_ticks |-> recipe.ticks])
         [] action.kind = "craft_complete" ->
                LET recipe == RECIPES[p.recipe]
                IN AgentEnvelope(st, "craft_complete",
                                 topic_for_item(recipe.output), n,
                                 [recipe |-> p.recipe,
                                  output |-> [i \in {recipe.output} |->
                                                 recipe.output_quantity],
                                  agent |-> AGENT_ID])

\* _execute_action after its await
after_publish(st, action) ==
    CASE action.kind = "join" ->
             [st EXCEPT !.joined = TRUE, !.wallet = STARTING_WALLET]
      [] action.kind = "heartbeat" ->
             [st EXCEPT !.last_heartbeat_tick = st.current_tick,
                        !.actions_this_tick = @ + 1]
      [] action.kind = "craft_start" ->
             [st EXCEPT !.active_craft =
                            {CraftingJob(action.params.recipe, st.current_tick,
                                         RECIPES[action.params.recipe].ticks)},
                        !.actions_this_tick = @ + 1]
      [] action.kind = "craft_complete" ->
             LET recipe == RECIPES[action.params.recipe]
             IN [add_inventory(st, recipe.output, recipe.output_quantity)
                    EXCEPT !.active_craft = {}, !.actions_this_tick = @ + 1]
      [] OTHER -> [st EXCEPT !.actions_this_tick = @ + 1]

\* _on_tick after advance_tick, from `stage` to its next await or to its end.
\* decided is what decide returned (or will return, before the "decide"
\* stage); i is the position in it of the next action of the loop; n is the
\* number of messages this run published so far.  The result is the state,
\* the handler's position, the publish it awaits (none at the end), the
\* positions of the actions it skipped and whether it called decide.
AwaitPublish(st, action, implicit, next, decided, i, n) ==
    [state |-> before_publish(st, action),
     pc |-> [at |-> "await", next |-> next, decided |-> decided, i |-> i],
     pending |-> <<[env |-> action_message(st, action, n), action |-> action,
                    implicit |-> implicit]>>,
     skipped |-> {}, decide_called |-> FALSE]

Returned(st) ==
    [state |-> st, pc |-> [at |-> "idle"], pending |-> <<>>, skipped |-> {},
     decide_called |-> FALSE]

RECURSIVE run_on_tick(_, _, _, _, _)
run_on_tick(st, stage, decided, i, n) ==
    CASE stage = "join" ->
             IF ~st.joined
             THEN AwaitPublish(st, JoinAction, TRUE, "heartbeat", <<>>, 1, n)
             ELSE run_on_tick(st, "heartbeat", decided, i, n)
      [] stage = "heartbeat" ->
             IF needs_heartbeat(st, HEARTBEAT_INTERVAL)
             THEN AwaitPublish(st, HeartbeatAction, TRUE, "craft", <<>>, 1, n)
             ELSE run_on_tick(st, "craft", decided, i, n)
      [] stage = "craft" ->
             IF /\ st.active_craft # {}
                /\ \A job \in st.active_craft :
                      /\ is_done(job, st.current_tick)
                      /\ job.recipe \in DOMAIN RECIPES
             THEN LET craft == CHOOSE job \in st.active_craft : TRUE
                  IN AwaitPublish(st, CraftCompleteAction(craft.recipe), TRUE,
                                  "decide", <<>>, 1, n)
             ELSE run_on_tick(st, "decide", decided, i, n)
      [] stage = "decide" ->
             [run_on_tick(st, "loop", decided, 1, n) EXCEPT !.decide_called = TRUE]
      [] stage = "loop" ->
             IF i > Len(decided) THEN Returned(st)
             ELSE IF remaining_actions(st, AGENT_MAX_ACTIONS_PER_TICK) <= 0
             THEN Returned(st)
             ELSE LET action == decided[i]
                      outcome == execute_outcome(st, action)
                  IN CASE outcome = "skip" ->
                              [run_on_tick(st, "loop", decided, i + 1, n)
                                  EXCEPT !.skipped = @ \cup {i}]
                       [] outcome = "raise" -> Returned(st)
                       [] OTHER ->
                              AwaitPublish(st, action, FALSE, "loop", decided,
                                           i + 1, n)

\* ----------------------------------------------- the runtime's environment
MaxAgentTick == 6

MaxTickGap == 2

MaxAgentInv == 2

AgentItems == {"potato", "onion", "soup"}

Gather1 == Action("gather", [item |-> "potato", quantity |-> 1])

GatherAt1 == Action("gather", [spawn_id |-> {1}, item |-> "potato", quantity |-> 1])

Offer1 == Action("offer", [item |-> "potato", quantity |-> 1,
                           price_per_unit |-> PriceStep])

Offer0 == Action("offer", [item |-> "potato", quantity |-> 0,
                           price_per_unit |-> PriceStep])

Bid1 == Action("bid", [item |-> "onion", quantity |-> 1,
                       max_price_per_unit |-> PriceStep])

Accept1 == Action("accept", [reference_msg_id |-> "m1", quantity |-> 1])

CraftSoup == Action("craft_start", [recipe |-> "soup"])

CraftStew == Action("craft_start", [recipe |-> "stew"])

\* What decide may return: nothing, any one action, and lists that meet the
\* budget, a skipped GATHER and a raising action before their last action.
DecideLists ==
    {<<>>}
    \cup {<<x>> : x \in {Gather1, GatherAt1, Offer1, Bid1, Accept1, CraftSoup,
                         CraftCompleteAction("soup"), HeartbeatAction,
                         JoinAction}}
    \cup {<<Gather1, Offer1>>, <<CraftStew, Offer1>>, <<Offer0, Bid1>>,
          <<CraftSoup, Bid1>>,
          <<JoinAction, Offer1, Bid1, Accept1, HeartbeatAction, Offer1, Bid1>>}

AgentInBounds(st) ==
    /\ st.wallet \in -MaxWallet .. MaxWallet
    /\ \A i \in DOMAIN st.inventory : st.inventory[i] \in 0 .. MaxAgentInv

LogEntry(p) == [action |-> p.action, implicit |-> p.implicit, env |-> p.env]

\* What the handler of the current Tick did so far: the messages whose
\* publish completed, what decide returned (once it was called), the
\* positions of the skipped actions, and the crafting job the Tick found.
AgentLog0 == [msgs |-> <<>>, decided |-> <<>>, skipped |-> {}, active_craft |-> {}]

\* A Tick arrives on /system/tick: _on_tick up to its first await.  The
\* subscription hands over the next Tick when the handler has returned.  The
\* agent connects at any tick (it is delivered the new messages only) and
\* may miss ticks afterwards.
AgentOnTick ==
    \E t \in 1 .. MaxAgentTick, decided \in DecideLists :
        /\ ev = Idle
        /\ a_pc.at = "idle"
        /\ t > agent.current_tick
        /\ agent.current_tick = 0 \/ t <= agent.current_tick + MaxTickGap
        /\ LET r == run_on_tick(agent_advance_tick(agent, t), "join", decided, 1, 0)
           IN /\ r.decide_called \/ decided = <<>>
              /\ agent' = r.state
              /\ a_pc' = r.pc
              /\ a_pending' = r.pending
              /\ a_out' = [msgs |-> <<>>,
                           decided |-> IF r.decide_called THEN <<decided>> ELSE <<>>,
                           skipped |-> r.skipped,
                           active_craft |-> agent.active_craft]
              /\ ev' = [h |-> "agent_tick", tick |-> t, before |-> agent,
                        skipped |-> r.skipped]
        /\ UNCHANGED <<a_first, bus, bankerVars, worldVars, govVars>>

\* The awaited publish completes: the rest of _execute_action, then _on_tick
\* up to its next await.
AgentPublished ==
    \E choice \in DecideLists :
        /\ ev = Idle
        /\ a_pending # <<>>
        /\ LET p == a_pending[1]
               decided == IF a_pc.next = "loop" THEN a_pc.decided ELSE choice
               r == run_on_tick(after_publish(agent, p.action), a_pc.next,
                                decided, a_pc.i, Len(a_out.msgs) + 1)
           IN /\ (a_pc.next # "loop" /\ r.decide_called) \/ choice = <<>>
              /\ AgentInBounds(r.state)
              /\ agent' = r.state
              /\ a_pc' = r.pc
              /\ a_pending' = r.pending
              /\ a_out' = [msgs |-> Append(a_out.msgs, LogEntry(p)),
                           decided |-> IF r.decide_called THEN <<decided>>
                                       ELSE a_out.decided,
                           skipped |-> a_out.skipped \cup r.skipped,
                           active_craft |-> a_out.active_craft]
              /\ a_first' = IF a_first = {} THEN {p.env.type} ELSE a_first
              /\ ev' = [h |-> "agent_published", env |-> p.env,
                        action |-> p.action, implicit |-> p.implicit,
                        before |-> agent, skipped |-> r.skipped]
        /\ UNCHANGED <<bus, bankerVars, worldVars, govVars>>

on_nature(envelope, st) ==
    IF envelope.type = "spawn"
    THEN [st EXCEPT !.current_spawn_id = {envelope.payload.spawn_id},
                    !.current_spawn_items = envelope.payload.items]
    ELSE IF envelope.type = "gather_result"
    THEN IF envelope.payload.agent_id = AGENT_ID /\ envelope.payload.success
         THEN add_inventory(st, envelope.payload.item, envelope.payload.quantity)
         ELSE st
    ELSE st

ObservedOffer(envelope, price_per_unit, is_sell) ==
    [msg_id |-> envelope.id, from_agent |-> envelope.from,
     item |-> envelope.payload.item, quantity |-> envelope.payload.quantity,
     price_per_unit |-> price_per_unit, is_sell |-> is_sell]

observe(envelope, st) ==
    IF envelope.type = "offer"
    THEN [st EXCEPT !.observed_offers =
             Append(@, ObservedOffer(envelope, envelope.payload.price_per_unit,
                                     TRUE))]
    ELSE [st EXCEPT !.observed_offers =
             Append(@, ObservedOffer(envelope,
                                     envelope.payload.max_price_per_unit, FALSE))]

\* variant: a Settlement is applied whoever the buyer is
on_market_any_buyer(envelope, st) ==
    IF envelope.from = AGENT_ID THEN st
    ELSE IF envelope.type \in {"offer", "bid"} THEN observe(envelope, st)
    ELSE IF envelope.type = "settlement"
    THEN LET p == envelope.payload
         IN add_inventory([st EXCEPT !.wallet = fl(@ - p.total_price)],
                          p.item, p.quantity)
    ELSE st

on_market(envelope, st) ==
    IF envelope.from = AGENT_ID THEN st
    ELSE IF envelope.type \in {"offer", "bid"} THEN observe(envelope, st)
    ELSE IF envelope.type = "settlement"
    THEN LET p == envelope.payload
         IN IF p.buyer = AGENT_ID
            THEN add_inventory([st EXCEPT !.wallet = fl(@ - p.total_price)],
                               p.item, p.quantity)
            ELSE IF p.seller = AGENT_ID
            THEN remove_inventory([st EXCEPT !.wallet = fl(@ + p.total_price)],
                                  p.item, p.quantity)
            ELSE st
    ELSE st

AgentSpawnEnvelopes ==
    {Envelope("spawn", "e", "world",
              [spawn_id |-> s, tick |-> s, items |-> spawn_table]) : s \in {1}}

AgentGatherResultEnvelopes ==
    {Envelope("gather_result", "e", "world",
              [agent_id |-> a, item |-> i, quantity |-> q, success |-> s]) :
        a \in {AGENT_ID}, i \in {"potato"}, q \in {1, 2}, s \in {TRUE}}
    \cup {Envelope("gather_result", "e", "world",
                   [agent_id |-> "b", item |-> "potato", quantity |-> 1,
                    success |-> TRUE]),
          Envelope("gather_result", "e", "world",
                   [agent_id |-> AGENT_ID, item |-> "potato", quantity |-> 0,
                    success |-> FALSE])}

AgentNatureEnvelopes == AgentSpawnEnvelopes \cup AgentGatherResultEnvelopes

\* A message arrives on /world/nature: _on_nature (it has no await).  Its
\* subscription runs beside the others, so it also runs while _on_tick is
\* suspended in a publish.
AgentOnNature ==
    \E envelope \in AgentNatureEnvelopes :
        /\ ev = Idle
        /\ AgentInBounds(on_nature(envelope, agent))
        /\ agent' = on_nature(envelope, agent)
        /\ ev' = [h |-> "agent_nature", env |-> envelope, before |-> agent]
        /\ UNCHANGED <<a_pc, a_pending, a_out, a_first, bus, bankerVars, worldVars,
                       govVars>>

\* ------------------------------------------------------------ the bus
\* One stream; every subscription has a consumer of its own that hands the
\* messages matching its subject to its handler one after the other, in
\* the order of their publication.  The consumers of different
\* subscriptions run beside each other.  A queue below holds the messages
\* its handler acts on; a message the handler returns from at once
\* (another type, its own sender) is dropped on receipt.  The Banker's
\* /system/tick subscription is left out: no order of the runtime expires.
Bus0 ==
    [world_nature |-> <<>>, banker_market |-> <<>>, banker_world |-> <<>>,
     agent_tick |-> <<>>, agent_nature |-> <<>>, agent_market |-> <<>>]

MarketTopics ==
    {"/market/square", "/market/governance", "/market/bank",
     "/market/raw-goods", "/market/food", "/market/materials",
     "/market/housing", "/market/general"}

WorldTopics == {"/world/nature"}

BusEnvelope(type, from, topic, tick, payload) ==
    [type |-> type, id |-> <<from, tick, 0>>, from |-> from, topic |-> topic,
     tick |-> tick, payload |-> payload]

Receives(queue, envelope) ==
    CASE queue = "world_nature" ->
             /\ envelope.topic = "/world/nature"
             /\ envelope.from # "world"
             /\ envelope.type = "gather"
      [] queue = "banker_market" ->
             /\ envelope.topic \in MarketTopics
             /\ envelope.type \in {"join", "offer", "bid", "accept",
                                   "craft_start", "craft_complete"}
      [] queue = "banker_world" ->
             /\ envelope.topic \in WorldTopics
             /\ envelope.type = "gather_result"
      [] queue = "agent_tick" ->
             /\ envelope.topic = "/system/tick"
             /\ envelope.type = "tick"
      [] queue = "agent_nature" ->
             /\ envelope.topic = "/world/nature"
             /\ envelope.type \in {"spawn", "gather_result"}
      [] queue = "agent_market" ->
             /\ envelope.topic \in MarketTopics
             /\ envelope.from # AGENT_ID
             /\ envelope.type \in {"offer", "bid", "settlement"}
      [] queue = "governor_market" ->
             /\ envelope.topic \in MarketTopics
             /\ ~(envelope.from = "governor"
                  /\ envelope.type = "validation_result")
      [] queue = "governor_tick" ->
             envelope.topic = "/system/tick"

publish(b, envelope) ==
    [queue \in DOMAIN b |->
        IF Receives(queue, envelope) THEN Append(b[queue], envelope)
        ELSE b[queue]]

consume(b, queue) == [b EXCEPT ![queue] = Tail(@)]

\* ---------------------------------------------- the market on one bus
\* The World, the Banker, the agent runtime and a second trader b, all
\* connected before the first tick.
MaxQueue == 3

BusInBounds(b) == \A queue \in DOMAIN b : Len(b[queue]) <= MaxQueue

MarketWorldDoTick ==
    /\ w_pc.at = "loop"
    /\ world.current_tick < MaxTick
    /\ LET r == process_tick(world, uuid_count)
       IN /\ world' = r.state
          /\ uuid_count' = uuid_count + 1
          /\ w_pc' = [at |-> "publish_tick", tick_number |-> r.tick,
                      spawn_id |-> r.spawn_id, items |-> r.items]
    /\ UNCHANGED <<world_pending, nature_spawn, tick_out, granted, bankerVars,
                   govVars, agentVars, ev>>

MarketWorldPublishTick ==
    /\ w_pc.at = "publish_tick"
    /\ tick_out' = w_pc.tick_number
    /\ w_pc' = [w_pc EXCEPT !.at = "publish_spawn"]
    /\ bus' = publish(bus, BusEnvelope("tick", "world", "/system/tick",
                                       w_pc.tick_number,
                                       [tick_number |-> w_pc.tick_number]))
    /\ UNCHANGED <<world, uuid_count, world_pending, nature_spawn, granted,
                   bankerVars, govVars, agent, a_pc, a_pending, a_out,
                   a_first, ev>>

MarketWorldPublishSpawn ==
    /\ w_pc.at = "publish_spawn"
    /\ nature_spawn' = <<[spawn_id |-> w_pc.spawn_id, tick |-> w_pc.tick_number,
                          items |-> w_pc.items]>>
    /\ w_pc' = [at |-> "loop"]
    /\ bus' = publish(bus, BusEnvelope("spawn", "world", "/world/nature",
                                       w_pc.tick_number,
                                       [spawn_id |-> w_pc.spawn_id,
                                        tick |-> w_pc.tick_number,
                                        items |-> w_pc.items]))
    /\ UNCHANGED <<world, uuid_count, world_pending, tick_out, granted,
                   bankerVars, govVars, agent, a_pc, a_pending, a_out,
                   a_first, ev>>

MarketWorldOnNature ==
    /\ bus.world_nature # <<>>
    /\ world_pending = <<>>
    /\ LET r == on_nature_message(Head(bus.world_nature), world)
       IN /\ world' = r.state
          /\ world_pending' = r.result
          /\ granted' = record_granted(granted, r.result)
    /\ bus' = consume(bus, "world_nature")
    /\ UNCHANGED <<uuid_count, w_pc, nature_spawn, tick_out, bankerVars,
                   govVars, agent, a_pc, a_pending, a_out, a_first, ev>>

MarketWorldPublishGatherResult ==
    /\ world_pending # <<>>
    /\ world_pending' = <<>>
    /\ bus' = publish(bus, BusEnvelope("gather_result", "world",
                                       "/world/nature", world.current_tick,
                                       world_pending[1]))
    /\ UNCHANGED <<world, uuid_count, w_pc, nature_spawn, tick_out, granted,
                   bankerVars, govVars, agent, a_pc, a_pending, a_out,
                   a_first, ev>>

MarketBankerOnMarket ==
    /\ bus.banker_market # <<>>
    /\ bank_pending = <<>>
    /\ LET r == on_market_message(Head(bus.banker_market), banker)
       IN /\ InBounds(r.state)
          /\ banker' = r.state
          /\ bank_pending' = IF r.trade # <<>> /\ SettlementValid(r.trade[1])
                             THEN <<Settlement(r.trade[1])>>
                             ELSE <<>>
    /\ bus' = consume(bus, "banker_market")
    /\ UNCHANGED <<bank_out, worldVars, govVars, agent, a_pc, a_pending,
                   a_out, a_first, ev>>

MarketBankerPublishSettlement ==
    /\ bank_pending # <<>>
    /\ bank_out' = bank_pending
    /\ bank_pending' = <<>>
    /\ bus' = publish(bus, BusEnvelope("settlement", "banker", "/market/bank",
                                       banker.current_tick, bank_pending[1]))
    /\ UNCHANGED <<banker, worldVars, govVars, agent, a_pc, a_pending, a_out,
                   a_first, ev>>

MarketBankerOnWorld ==
    /\ bus.banker_world # <<>>
    /\ LET r == on_world_message(Head(bus.banker_world), banker)
       IN /\ InBounds(r.state)
          /\ banker' = r.state
    /\ bus' = consume(bus, "banker_world")
    /\ UNCHANGED <<bank_pending, bank_out, worldVars, govVars, agent, a_pc,
                   a_pending, a_out, a_first, ev>>

inventory_count(st, item) == Get(st.inventory, item, 0)

has_items(st, requirements) ==
    \A item \in DOMAIN requirements :
        inventory_count(st, item) >= requirements[item]

agent_is_crafting(st) == st.active_craft # {}

\* The ids of the orders of a trader that were published and are not
\* filled yet: what the others saw on /market/>.
OrdersPublished(from) ==
    {bus.banker_market[k].id :
        k \in {j \in DOMAIN bus.banker_market :
                  /\ bus.banker_market[j].type \in {"offer", "bid"}
                  /\ bus.banker_market[j].from = from}}
    \cup {m \in DOMAIN banker.orders : banker.orders[m].from_agent = from}

GatherPotatoes == Action("gather", [item |-> "potato", quantity |-> PotatoSpawn])

BidPotato == Action("bid", [item |-> "potato", quantity |-> 1,
                            max_price_per_unit |-> PriceStep])

GatherOnion == Action("gather", [item |-> "onion", quantity |-> 1])

\* What a strategy that reads the mirror may return: it gathers from the
\* spawn it knows, offers a potato it holds (and may bid for one), and
\* starts the soup when it holds every input and crafts nothing (as the
\* chef's strategy does).
MarketDecide(st) ==
    {<<>>}
    \cup (IF st.current_spawn_id # {}
          THEN {<<GatherPotatoes, GatherOnion>>, <<Gather1>>} ELSE {})
    \cup (IF inventory_count(st, "potato") >= 1
          THEN {<<Offer1>>, <<Offer1, BidPotato>>} ELSE {})
    \cup (IF has_items(st, RECIPES["soup"].inputs) /\ ~agent_is_crafting(st)
          THEN {<<CraftSoup>>} ELSE {})

MarketAgentOnTick ==
    /\ bus.agent_tick # <<>>
    /\ a_pc.at = "idle"
    /\ LET t == Head(bus.agent_tick).payload.tick_number
           st == agent_advance_tick(agent, t)
       IN \E decided \in MarketDecide(st) :
             LET r == run_on_tick(st, "join", decided, 1, 0)
             IN /\ r.decide_called \/ decided = <<>>
                /\ agent' = r.state
                /\ a_pc' = r.pc
                /\ a_pending' = r.pending
                /\ a_out' = [AgentLog0 EXCEPT !.skipped = r.skipped]
    /\ bus' = consume(bus, "agent_tick")
    /\ UNCHANGED <<a_first, bankerVars, worldVars, govVars, ev>>

MarketAgentPublished ==
    /\ a_pending # <<>>
    /\ LET p == a_pending[1]
           st == after_publish(agent, p.action)
       IN \E choice \in MarketDecide(st) :
             LET decided == IF a_pc.next = "loop" THEN a_pc.decided ELSE choice
                 r == run_on_tick(st, a_pc.next, decided, a_pc.i,
                                  Len(a_out.msgs) + 1)
             IN /\ (a_pc.next # "loop" /\ r.decide_called) \/ choice = <<>>
                /\ AgentInBounds(r.state)
                /\ agent' = r.state
                /\ a_pc' = r.pc
                /\ a_pending' = r.pending
                /\ a_out' = [a_out EXCEPT !.msgs = Append(@, LogEntry(p)),
                                          !.skipped = @ \cup r.skipped]
                /\ bus' = publish(bus, p.env)
                /\ BusInBounds(bus')
    /\ UNCHANGED <<a_first, bankerVars, worldVars, govVars, ev>>

MarketAgentOnNature ==
    /\ bus.agent_nature # <<>>
    /\ AgentInBounds(on_nature(Head(bus.agent_nature), agent))
    /\ agent' = on_nature(Head(bus.agent_nature), agent)
    /\ bus' = consume(bus, "agent_nature")
    /\ UNCHANGED <<a_pc, a_pending, a_out, a_first, bankerVars, worldVars,
                   govVars, ev>>

MarketAgentOnMarket ==
    /\ bus.agent_market # <<>>
    /\ AgentInBounds(on_market(Head(bus.agent_market), agent))
    /\ agent' = on_market(Head(bus.agent_market), agent)
    /\ bus' = consume(bus, "agent_market")
    /\ UNCHANGED <<a_pc, a_pending, a_out, a_first, bankerVars, worldVars,
                   govVars, ev>>

\* The second trader runs the same runtime: it joins, and it accepts one
\* potato of an OFFER or of a BID of the agent that it saw on the market.
OtherInFlight(type) ==
    \E k \in DOMAIN bus.banker_market :
        /\ bus.banker_market[k].from = "b"
        /\ bus.banker_market[k].type = type

MarketOtherJoins ==
    /\ ~has_account(banker, "b")
    /\ ~OtherInFlight("join")
    /\ bus' = publish(bus, BusEnvelope("join", "b", "/market/square",
                                       tick_out, [agent_id |-> "b"]))
    /\ BusInBounds(bus')
    /\ UNCHANGED <<agent, a_pc, a_pending, a_out, a_first, bankerVars,
                   worldVars, govVars, ev>>

MarketOtherAccepts ==
    \E m \in OrdersPublished(AGENT_ID) :
        /\ ~OtherInFlight("accept")
        /\ bus' = publish(bus, BusEnvelope("accept", "b", "/market/square",
                                           tick_out,
                                           [reference_msg_id |-> m,
                                            quantity |-> 1]))
        /\ BusInBounds(bus')
        /\ UNCHANGED <<agent, a_pc, a_pending, a_out, a_first, bankerVars,
                       worldVars, govVars, ev>>

\* ------------------------------------------------------- specifications
\* ev is a history variable: the run of a handler (or of a step of the tick
\* loop) that was just made, with its input and its outcome.  Forget
\* discards it; every run starts from Idle, so that each recorded run is
\* looked at once and the interleavings of the runs are all kept.
\* ------------------------------------- the runtime under the Governor
\* The World's tick loop, the Governor (its /market/> and /system/tick
\* subscriptions) and the agent runtime (its /system/tick subscription) on
\* one bus.  The strategy returns market actions only.
RateBus0 ==
    [governor_market |-> <<>>, governor_tick |-> <<>>, agent_tick |-> <<>>]

RateDecide ==
    {<<>>, <<BidPotato, BidPotato, BidPotato>>,
     <<BidPotato, BidPotato, BidPotato, BidPotato, BidPotato>>}

RateAgentOnTick ==
    /\ bus.agent_tick # <<>>
    /\ a_pc.at = "idle"
    /\ LET t == Head(bus.agent_tick).payload.tick_number
           st == agent_advance_tick(agent, t)
       IN \E decided \in RateDecide :
             LET r == run_on_tick(st, "join", decided, 1, 0)
             IN /\ r.decide_called \/ decided = <<>>
                /\ agent' = r.state
                /\ a_pc' = r.pc
                /\ a_pending' = r.pending
                /\ a_out' = [AgentLog0 EXCEPT !.skipped = r.skipped]
    /\ bus' = consume(bus, "agent_tick")
    /\ UNCHANGED <<a_first, bankerVars, worldVars, govVars, ev>>

RateAgentPublished ==
    /\ a_pending # <<>>
    /\ LET p == a_pending[1]
           st == after_publish(agent, p.action)
       IN \E choice \in RateDecide :
             LET decided == IF a_pc.next = "loop" THEN a_pc.decided ELSE choice
                 r == run_on_tick(st, a_pc.next, decided, a_pc.i,
                                  Len(a_out.msgs) + 1)
             IN /\ (a_pc.next # "loop" /\ r.decide_called) \/ choice = <<>>
                /\ AgentInBounds(r.state)
                /\ agent' = r.state
                /\ a_pc' = r.pc
                /\ a_pending' = r.pending
                /\ a_out' = [a_out EXCEPT !.msgs = Append(@, LogEntry(p)),
                                          !.skipped = @ \cup r.skipped]
                /\ bus' = publish(bus, p.env)
                /\ BusInBounds(bus')
    /\ UNCHANGED <<a_first, bankerVars, worldVars, govVars, ev>>

\* Governor._on_market_message up to its await of _publish_result
RateGovernorOnMarket ==
    /\ bus.governor_market # <<>>
    /\ gov_pending = <<>>
    /\ LET r == governor_on_market_message(Head(bus.governor_market), gov)
       IN /\ gov' = r.state
          /\ gov_pending' = IF r.result = <<>> THEN <<>>
                            ELSE <<[result |-> r.result[1],
                                    then_record |-> r.then_record]>>
    /\ bus' = consume(bus, "governor_market")
    /\ UNCHANGED <<gov_seen, bankerVars, worldVars, agent, a_pc, a_pending,
                   a_out, a_first, ev>>

\* the ValidationResult publish completes (the Governor's own results are
\* dropped by its handler on receipt)
RateGovernorPublishResult ==
    /\ gov_pending # <<>>
    /\ gov' = IF gov_pending[1].then_record = <<>> THEN gov
              ELSE record_action(gov, gov_pending[1].then_record[1])
    /\ gov_pending' = <<>>
    /\ UNCHANGED <<gov_seen, bankerVars, worldVars, agentVars, ev>>

\* Governor._on_tick
RateGovernorOnTick ==
    /\ bus.governor_tick # <<>>
    /\ gov' = governor_on_tick(Head(bus.governor_tick), gov)
    /\ bus' = consume(bus, "governor_tick")
    /\ UNCHANGED <<gov_pending, gov_seen, bankerVars, worldVars, agent, a_pc,
                   a_pending, a_out, a_first, ev>>

\* ------------------------------------ the runtime observing the market
\* The World's tick loop, a second trader that publishes one OFFER per
\* tick, and the agent runtime with its /system/tick and /market/>
\* subscriptions.  The log keeps the ids appended to observed_offers since
\* decide was last called and, once decide was called, what it was handed.
ObserveBus0 == [agent_tick |-> <<>>, agent_market |-> <<>>]

ObserveLog0 == [msgs |-> <<>>, observed |-> {}, at_decide |-> <<>>]

ObservedIds(st) ==
    {st.observed_offers[k].msg_id : k \in DOMAIN st.observed_offers}

\* the log after a segment of _on_tick that did or did not reach decide
ObserveLogged(log, r) ==
    IF r.decide_called
    THEN [log EXCEPT !.observed = {},
                     !.at_decide = <<[handed |-> ObservedIds(r.state),
                                      observed |-> log.observed]>>]
    ELSE log

ObserveDecide == {<<>>, <<BidPotato>>}

ObserveOtherOffers ==
    /\ tick_out >= 1
    /\ LET m == BusEnvelope("offer", "b", "/market/raw-goods", tick_out,
                            [item |-> "potato", quantity |-> 1,
                             price_per_unit |-> PriceStep])
       IN /\ \A k \in DOMAIN bus.agent_market : bus.agent_market[k].id # m.id
          /\ m.id \notin ObservedIds(agent)
          /\ m.id \notin a_out.observed
          /\ bus' = publish(bus, m)
          /\ BusInBounds(bus')
    /\ UNCHANGED <<agent, a_pc, a_pending, a_out, a_first, bankerVars,
                   worldVars, govVars, ev>>

ObserveAgentOnTick ==
    /\ bus.agent_tick # <<>>
    /\ a_pc.at = "idle"
    /\ LET t == Head(bus.agent_tick).payload.tick_number
           st == agent_advance_tick(agent, t)
       IN \E decided \in ObserveDecide :
             LET r == run_on_tick(st, "join", decided, 1, 0)
             IN /\ r.decide_called \/ decided = <<>>
                /\ agent' = r.state
                /\ a_pc' = r.pc
                /\ a_pending' = r.pending
                /\ a_out' = ObserveLogged([a_out EXCEPT !.msgs = <<>>], r)
    /\ bus' = consume(bus, "agent_tick")
    /\ UNCHANGED <<a_first, bankerVars, worldVars, govVars, ev>>

ObserveAgentPublished ==
    /\ a_pending # <<>>
    /\ LET p == a_pending[1]
           st == after_publish(agent, p.action)
       IN \E choice \in ObserveDecide :
             LET decided == IF a_pc.next = "loop" THEN a_pc.decided ELSE choice
                 r == run_on_tick(st, a_pc.next, decided, a_pc.i,
                                  Len(a_out.msgs) + 1)
             IN /\ (a_pc.next # "loop" /\ r.decide_called) \/ choice = <<>>
                /\ AgentInBounds(r.state)
                /\ agent' = r.state
                /\ a_pc' = r.pc
                /\ a_pending' = r.pending
                /\ a_out' = ObserveLogged(
                                [a_out EXCEPT !.msgs = Append(@, LogEntry(p))], r)
                /\ bus' = publish(bus, p.env)
                /\ BusInBounds(bus')
    /\ UNCHANGED <<a_first, bankerVars, worldVars, govVars, ev>>

\* _on_market: its own subscription, so it also runs while _on_tick waits
\* for a publish
ObserveAgentOnMarket ==
    /\ bus.agent_market # <<>>
    /\ agent' = on_market(Head(bus.agent_market), agent)
    /\ a_out' = [a_out EXCEPT !.observed =
                    IF Head(bus.agent_market).type \in {"offer", "bid"}
                    THEN @ \cup {Head(bus.agent_market).id} ELSE @]
    /\ bus' = consume(bus, "agent_market")
    /\ UNCHANGED <<a_pc, a_pending, a_first, bankerVars, worldVars, govVars, ev>>

Forget ==
    /\ ev # Idle
    /\ ev' = Idle
    /\ UNCHANGED <<bankerVars, worldVars, govVars, agentVars>>

Init ==
    /\ banker = BankerState0
    /\ bank_pending = <<>>
    /\ bank_out = <<>>
    /\ world = WorldState0
    /\ uuid_count = 0
    /\ w_pc = [at |-> "loop"]
    /\ world_pending = <<>>
    /\ nature_spawn = <<>>
    /\ tick_out = 0
    /\ granted = [id \in SpawnIds |-> EmptyDict]
    /\ gov = GovernorState0
    /\ gov_pending = <<>>
    /\ gov_seen = EmptyDict
    /\ agent = AgentState0
    /\ a_pc = [at |-> "idle"]
    /\ a_pending = <<>>
    /\ a_out = AgentLog0
    /\ a_first = {}
    /\ bus = Bus0
    /\ ev = Idle

NextBanker ==
    \/ BankerOnMarketMessage
    \/ BankerPublishSettlement
    \/ BankerOnWorldMessage
    \/ BankerOnTick
    \/ Forget

SpecBanker == Init /\ [][NextBanker]_vars

NextBook ==
    \/ BankerOnBookMessage
    \/ BankerOnWorldMessage
    \/ Forget

SpecBook == Init /\ [][NextBook]_vars

NextExpiry ==
    \/ BankerOnExpiringMessage
    \/ BankerOnWorldMessage
    \/ BankerOnExpiryTick
    \/ Forget

SpecExpiry == Init /\ [][NextExpiry]_vars

NextAgent ==
    \/ AgentOnTick
    \/ AgentPublished
    \/ AgentOnNature
    \/ Forget

SpecAgent == Init /\ [][NextAgent]_vars


NextMarket ==
    \/ MarketWorldDoTick
    \/ MarketWorldPublishTick
    \/ MarketWorldPublishSpawn
    \/ MarketWorldOnNature
    \/ MarketWorldPublishGatherResult
    \/ MarketBankerOnMarket
    \/ MarketBankerPublishSettlement
    \/ MarketBankerOnWorld
    \/ MarketAgentOnTick
    \/ MarketAgentPublished
    \/ MarketAgentOnNature
    \/ MarketAgentOnMarket
    \/ MarketOtherJoins
    \/ MarketOtherAccepts

SpecMarket == Init /\ [][NextMarket]_vars

NextLedger ==
    \/ LedgerOnMarketMessage
    \/ BankerPublishSettlement
    \/ BankerOnWorldMessage
    \/ Forget

SpecLedger == Init /\ [][NextLedger]_vars

NextRedelivery ==
    \/ RedeliveryOnMarketMessage
    \/ RedeliveryPublishSettlement
    \/ BankerOnWorldMessage
    \/ Forget

SpecRedelivery == Init /\ [][NextRedelivery]_vars

InitRate ==
    /\ banker = BankerState0
    /\ bank_pending = <<>>
    /\ bank_out = <<>>
    /\ world = WorldState0
    /\ uuid_count = 0
    /\ w_pc = [at |-> "loop"]
    /\ world_pending = <<>>
    /\ nature_spawn = <<>>
    /\ tick_out = 0
    /\ granted = [id \in SpawnIds |-> EmptyDict]
    /\ gov = GovernorState0
    /\ gov_pending = <<>>
    /\ gov_seen = EmptyDict
    /\ agent = AgentState0
    /\ a_pc = [at |-> "idle"]
    /\ a_pending = <<>>
    /\ a_out = AgentLog0
    /\ a_first = {}
    /\ bus = RateBus0
    /\ ev = Idle

NextRate ==
    \/ MarketWorldDoTick
    \/ MarketWorldPublishTick
    \/ MarketWorldPublishSpawn
    \/ RateAgentOnTick
    \/ RateAgentPublished
    \/ RateGovernorOnMarket
    \/ RateGovernorPublishResult
    \/ RateGovernorOnTick

SpecRate == InitRate /\ [][NextRate]_vars

InitObserve ==
    /\ banker = BankerState0
    /\ bank_pending = <<>>
    /\ bank_out = <<>>
    /\ world = WorldState0
    /\ uuid_count = 0
    /\ w_pc = [at |-> "loop"]
    /\ world_pending = <<>>
    /\ nature_spawn = <<>>
    /\ tick_out = 0
    /\ granted = [id \in SpawnIds |-> EmptyDict]
    /\ gov = GovernorState0
    /\ gov_pending = <<>>
    /\ gov_seen = EmptyDict
    /\ agent = AgentState0
    /\ a_pc = [at |-> "idle"]
    /\ a_pending = <<>>
    /\ a_out = ObserveLog0
    /\ a_first = {}
    /\ bus = ObserveBus0
    /\ ev = Idle

NextObserve ==
    \/ MarketWorldDoTick
    \/ MarketWorldPublishTick
    \/ MarketWorldPublishSpawn
    \/ ObserveOtherOffers
    \/ ObserveAgentOnTick
    \/ ObserveAgentPublished
    \/ ObserveAgentOnMarket

SpecObserve == InitObserve /\ [][NextObserve]_vars

NextLate ==
    \/ LateOnMarketMessage
    \/ BankerPublishSettlement
    \/ BankerOnWorldMessage
    \/ BankerOnExpiryTick
    \/ Forget

SpecLate == Init /\ [][NextLate]_vars

NextCraft ==
    \/ BankerOnCraftMessage
    \/ BankerOnCraftWorldMessage
    \/ Forget

SpecCraft == Init /\ [][NextCraft]_vars

NextWorld ==
    \/ WorldDoTick
    \/ WorldPublishTick
    \/ WorldPublishSpawn
    \/ WorldOnNatureMessage
    \/ WorldPublishGatherResult
    \/ Forget

SpecWorld == Init /\ [][NextWorld]_vars

NextGovernor ==
    \/ GovernorOnMarketMessage
    \/ GovernorPublishResult
    \/ GovernorOnTick
    \/ Forget

SpecGovernor == Init /\ [][NextGovernor]_vars

\* ================================================================ claims
Wallet(st, a) == st.accounts[a].wallet

Count(st, a, i) == Get(st.accounts[a].inventory, i, 0)

\* The run just made handled an ACCEPT
AcceptHandled == ev.h = "market" /\ ev.env.type = "accept"

\* ... and process_accept returned without errors: the trade was applied
TradeApplied == AcceptHandled /\ ev.trade # <<>>

RefOrder == ev.before.orders[ev.env.payload.reference_msg_id]

\* Buyer and seller as the protocol assigns them: the accepter of an OFFER
\* buys, the accepter of a BID sells.
Buyer == IF RefOrder.msg_type = "offer" THEN ev.env.from ELSE RefOrder.from_agent

Seller == IF RefOrder.msg_type = "offer" THEN RefOrder.from_agent ELSE ev.env.from

\* C1: in every reachable Banker state every account's wallet is >= 0,
\* whatever messages (ill-formed ones included) the Banker has handled.
C1_WalletNeverNegative ==
    \A a \in DOMAIN banker.accounts : Wallet(banker, a) >= 0

\* C2: in every reachable Banker state every inventory entry has a count > 0
\* (no key is left with a zero or negative count).
C2_InventoryCountsPositive ==
    \A a \in DOMAIN banker.accounts :
        \A i \in DOMAIN banker.accounts[a].inventory :
            banker.accounts[a].inventory[i] > 0

C4_TradeQuantityIsMin ==
    TradeApplied =>
        LET q == Min(ev.env.payload.quantity, RefOrder.quantity)
        IN /\ ev.trade[1].quantity = q
           /\ Count(banker, Buyer, RefOrder.item)
                 = Count(ev.before, Buyer, RefOrder.item) + q
           /\ Count(banker, Seller, RefOrder.item)
                 = Count(ev.before, Seller, RefOrder.item) - q
           /\ bank_pending # <<>> => bank_pending[1].quantity = q

\* an over-accept of a BID, filled up to the BID's quantity
C4_Witness ==
    /\ TradeApplied
    /\ RefOrder.msg_type = "bid"
    /\ ev.env.payload.quantity > RefOrder.quantity
    /\ bank_pending # <<>>
    /\ bank_pending[1].quantity = RefOrder.quantity

C4_WitnessOffer ==
    /\ TradeApplied
    /\ RefOrder.msg_type = "offer"
    /\ ev.env.payload.quantity > RefOrder.quantity
    /\ bank_pending # <<>>
    /\ bank_pending[1].quantity = RefOrder.quantity

\* C5: when a trade of quantity q against order R is applied, R's remaining
\* quantity decreases by exactly q; R leaves the book exactly when that
\* reaches zero, and a partly filled R stays with the difference.
C5_OrderReducedByTradeQuantity ==
    TradeApplied =>
        LET R == ev.env.payload.reference_msg_id
            q == ev.trade[1].quantity
        IN /\ bank_pending # <<>> => /\ bank_pending[1].reference_msg_id = R
                                     /\ bank_pending[1].quantity = q
           /\ R \in DOMAIN banker.orders <=> RefOrder.quantity - q # 0
           /\ R \in DOMAIN banker.orders =>
                 banker.orders[R] = [RefOrder EXCEPT !.quantity = @ - q]
           /\ \A m \in DOMAIN ev.before.orders \ {R} :
                 m \in DOMAIN banker.orders /\ banker.orders[m] = ev.before.orders[m]

\* a partial fill: the Settlement's order is still in the book
C5_Witness ==
    /\ TradeApplied
    /\ bank_pending # <<>>
    /\ bank_pending[1].reference_msg_id \in DOMAIN banker.orders
    /\ banker.orders[bank_pending[1].reference_msg_id].quantity = 1

C5_WitnessRemoved ==
    /\ TradeApplied
    /\ bank_pending # <<>>
    /\ bank_pending[1].reference_msg_id \notin DOMAIN banker.orders

\* C6: an ACCEPT that fails a check leaves every wallet, every inventory and
\* the order book unchanged, and no Settlement is built for it.
C6_FailedAcceptChangesNothing ==
    (AcceptHandled /\ ev.errors # {}) =>
        /\ banker = ev.before
        /\ ev.trade = <<>>
        /\ bank_pending = <<>>

C6_Witness ==
    /\ AcceptHandled
    /\ ev.errors = {"insufficient inventory"}
    /\ ev.before.orders # EmptyDict

\* C7: an ACCEPT sent by the originator of the referenced order (OFFER or
\* BID) produces no Settlement and changes no order, wallet or inventory.
C7_SelfAcceptChangesNothing ==
    (/\ AcceptHandled
     /\ ev.env.payload.reference_msg_id \in DOMAIN ev.before.orders
     /\ RefOrder.from_agent = ev.env.from) =>
        /\ banker = ev.before
        /\ ev.trade = <<>>
        /\ bank_pending = <<>>

\* a self-accept of an OFFER the agent could otherwise have bought
C7_Witness ==
    /\ AcceptHandled
    /\ ev.env.payload.reference_msg_id \in DOMAIN ev.before.orders
    /\ RefOrder.from_agent = ev.env.from
    /\ RefOrder.msg_type = "offer"
    /\ RefOrder.quantity > 0
    /\ ev.env.payload.quantity > 0

C7_WitnessBid ==
    /\ AcceptHandled
    /\ ev.env.payload.reference_msg_id \in DOMAIN ev.before.orders
    /\ RefOrder.from_agent = ev.env.from
    /\ RefOrder.msg_type = "bid"
    /\ Count(ev.before, ev.env.from, RefOrder.item) >= 1
    /\ ev.env.payload.quantity > 0

\* The run just made handled a Gather from an agent
GatherHandled ==
    /\ ev.h = "nature"
    /\ ev.env.type = "gather"
    /\ ev.env.from # "world"

WellFormedGather ==
    /\ ev.env.payload.spawn_id # 0
    /\ ev.env.payload.item # ""
    /\ ev.env.payload.quantity > 0

\* C8: for every spawn id and item, the granted quantities of all
\* GatherResults against that spawn id sum to at most the pool's initial
\* count of the item, and the pool's remaining counts are never negative.
C8_GrantedWithinInitialCount ==
    /\ \A id \in SpawnIds :
          \A item \in DOMAIN granted[id] :
              granted[id][item] <= Get(spawn_table, item, 0)
    /\ world.active_spawn # <<>> =>
          \A item \in DOMAIN world.active_spawn[1].remaining :
              world.active_spawn[1].remaining[item] >= 0

\* a second agent's Gather is cut to what the first left, emptying the pool
C8_Witness ==
    /\ GatherHandled
    /\ ev.result[1].success
    /\ ev.result[1].quantity < ev.env.payload.quantity
    /\ ev.before.active_spawn[1].remaining["potato"] < PotatoSpawn
    /\ granted[ev.env.payload.spawn_id]["potato"] = PotatoSpawn
    /\ world.active_spawn[1].remaining["potato"] = 0

\* C9: once a later tick replaced a pool, a well-formed Gather carrying that
\* pool's spawn id is answered success=false, quantity 0, reason "Spawn
\* expired or not found", and the active pool's remaining counts are unchanged.
C9_OldSpawnIdAlwaysExpired ==
    (/\ GatherHandled
     /\ WellFormedGather
     /\ ev.before.active_spawn # <<>>
     /\ ev.env.payload.spawn_id \in 1 .. ev.issued
     /\ ev.env.payload.spawn_id # ev.before.active_spawn[1].spawn_id) =>
        /\ ~ev.result[1].success
        /\ ev.result[1].quantity = 0
        /\ ev.result[1].reason = {<<"Spawn expired or not found">>}
        /\ world = ev.before

\* the item asked for is still available in the active pool
C9_Witness ==
    /\ GatherHandled
    /\ WellFormedGather
    /\ ev.before.active_spawn # <<>>
    /\ ev.env.payload.spawn_id \in 1 .. ev.issued
    /\ ev.env.payload.spawn_id # ev.before.active_spawn[1].spawn_id
    /\ Get(ev.before.active_spawn[1].remaining, ev.env.payload.item, 0) > 0

\* C10: every Gather the nature handler processes finds the active pool's
\* id equal to the id carried by the most recently published Spawn message
\* (no pool before the first Spawn, and never a replaced pool whose Tick or
\* Spawn message is not published yet).
C10_ActivePoolIsLastPublishedSpawn ==
    GatherHandled =>
        IF ev.before.active_spawn = <<>> THEN nature_spawn = <<>>
        ELSE /\ nature_spawn # <<>>
             /\ nature_spawn[1].spawn_id = ev.before.active_spawn[1].spawn_id

C11_WitnessOwn ==
    /\ ev.h = "nature"
    /\ ev.env.from = "world"
    /\ ev.env.type = "gather"
    /\ world.active_spawn # <<>>
    /\ world_pending = <<>>

\* The run just made handled a market message the Governor answers
GovHandled == ev.h = "gov_market" /\ ev.result # <<>>

RateLimited == <<"Rate limited", ev.env.from>> \in ev.result[1].reason

ReportedInactive == <<"inactive", ev.env.from>> \in ev.result[1].reason

\* C12: every market message handed to the Governor's handler, other than
\* its own ValidationResults, gets exactly one ValidationResult whose
\* reference_msg_id is the message's id (each delivery its own); the
\* Governor's own ValidationResults get none and change nothing.
C12_OneValidationResultPerMessage ==
    /\ ev.h = "gov_market" =>
          IF ev.env.from = "governor" /\ ev.env.type = "validation_result"
          THEN ev.result = <<>> /\ gov_pending = <<>> /\ gov = ev.before
          ELSE /\ Len(ev.result) = 1
               /\ ev.result[1].reference_msg_id = ev.env.id
               /\ ev.result[1].action = ev.env.type
               /\ Len(gov_pending) = 1
               /\ gov_pending[1].result = ev.result[1]
    /\ ev.h = "publish_result" => gov_pending = <<>>

\* a second heartbeat (id m2) of a rate-limited agent still gets its result
C12_Witness ==
    /\ GovHandled
    /\ ev.env.id = "m2"
    /\ RateLimited
    /\ gov_pending # <<>>
    /\ gov_pending[1].result.reference_msg_id = "m2"
    /\ ~gov_pending[1].result.valid

C12_WitnessOwn ==
    /\ ev.h = "gov_market"
    /\ ev.env.from = "governor"
    /\ ev.before.actions_this_tick # EmptyDict

\* C13: a structurally valid message from agent a is answered "Rate limited"
\* if and only if the Governor was already handed at least 5 messages from a
\* since the last Tick it handled (every answered message counts).
C13_RateLimitedIffFiveSinceTick ==
    (GovHandled /\ validate_message(ev.env) = {}) =>
        (RateLimited <=> Get(ev.seen, ev.env.from, 0) >= MAX_ACTIONS_PER_TICK)

\* C14: right after a Tick is handled every action counter is zero, and the
\* first five messages of an agent handed to the Governor after that Tick
\* are not rate-limited.
C14_FirstFiveAfterTickNotLimited ==
    /\ ev.h = "gov_tick" => gov.actions_this_tick = EmptyDict
    /\ (GovHandled /\ Get(ev.seen, ev.env.from, 0) < MAX_ACTIONS_PER_TICK) =>
          ~RateLimited

\* The run just made answered a CRAFT_START
CraftStartHandled == GovHandled /\ ev.env.type = "craft_start"

\* an active craft was recorded for the sender when the message arrived
HasActiveCraft == ev.env.from \in DOMAIN ev.before.active_crafts

\* a CRAFT_START with no defect of its own, from a sender in good standing
CleanCraftStart ==
    /\ validate_message(ev.env) = {}
    /\ ~is_rate_limited(ev.before, ev.env.from)
    /\ ~is_inactive(ev.before, ev.env.from)
    /\ is_valid_recipe(ev.env.payload.recipe)
    /\ ev.env.payload.inputs = RECIPES[ev.env.payload.recipe].inputs
    /\ ev.env.payload.estimated_ticks = RECIPES[ev.env.payload.recipe].ticks

\* C15 (as stated): a CRAFT_START is answered valid=false if and only if an
\* active craft is recorded for its sender when it is handled.
C15_RejectedIffCrafting ==
    CraftStartHandled =>
        (~ev.result[1].valid <=> HasActiveCraft)

\* C15 (amended): a CRAFT_START of a sender with an active craft is always
\* answered valid=false; one with no defect of its own (structurally valid,
\* sender neither rate-limited nor inactive, known recipe, inputs and
\* estimated ticks equal to the recipe's) is answered valid=false if and
\* only if an active craft is recorded for its sender.
C15_RejectedIffCraftingWhenClean ==
    CraftStartHandled =>
        /\ HasActiveCraft => ~ev.result[1].valid
        /\ CleanCraftStart =>
              (~ev.result[1].valid <=> HasActiveCraft)

\* a clean CRAFT_START rejected only because the sender is crafting
C15_Witness ==
    /\ CraftStartHandled
    /\ CleanCraftStart
    /\ HasActiveCraft
    /\ ~ev.result[1].valid

C15_WitnessAccepted ==
    /\ CraftStartHandled
    /\ CleanCraftStart
    /\ ev.result[1].valid
    /\ ev.before.current_tick > 0

\* C16: the active-craft records change only on success: a CRAFT_START
\* answered valid=true creates the sender's record (started at the current
\* tick), a CRAFT_COMPLETE answered valid=true clears it, and every other
\* answer, valid=false ones included, leaves all records as they were.
C16_CraftRecordChangesOnlyOnSuccess ==
    /\ GovHandled =>
          gov.active_crafts =
             IF ev.result[1].valid /\ ev.env.type = "craft_start"
             THEN Put(ev.before.active_crafts, ev.env.from,
                      ActiveCraft(ev.env.payload.recipe, ev.before.current_tick,
                                  ev.env.payload.estimated_ticks))
             ELSE IF ev.result[1].valid /\ ev.env.type = "craft_complete"
             THEN Del(ev.before.active_crafts, ev.env.from)
             ELSE ev.before.active_crafts
    /\ ev.h \in {"gov_tick", "publish_result"} =>
          gov.active_crafts = ev.before.active_crafts

\* C17: a structurally valid message of a sender that is not rate-limited is
\* answered with the inactive error if and only if a heartbeat of the sender
\* is recorded and current_tick minus its tick is > 10.
C17_InactiveIffGapAboveTimeout ==
    (/\ GovHandled
     /\ validate_message(ev.env) = {}
     /\ ~is_rate_limited(ev.before, ev.env.from)) =>
        (ReportedInactive <=>
            /\ ev.env.from \in DOMAIN ev.before.last_heartbeat_tick
            /\ ev.before.current_tick
                  - ev.before.last_heartbeat_tick[ev.env.from]
                  > HEARTBEAT_TIMEOUT_TICKS)

\* a gap of exactly the timeout: still active
C17_Witness ==
    /\ GovHandled
    /\ validate_message(ev.env) = {}
    /\ ev.env.from \in DOMAIN ev.before.last_heartbeat_tick
    /\ ev.before.current_tick - ev.before.last_heartbeat_tick[ev.env.from]
          = HEARTBEAT_TIMEOUT_TICKS
    /\ ~ReportedInactive
    /\ ev.result[1].valid

C17_WitnessInactive ==
    /\ GovHandled
    /\ ReportedInactive
    /\ ev.before.current_tick - ev.before.last_heartbeat_tick[ev.env.from]
          = HEARTBEAT_TIMEOUT_TICKS + 1

C17_WitnessNoHeartbeat ==
    /\ GovHandled
    /\ ev.env.from \notin DOMAIN ev.before.last_heartbeat_tick
    /\ ev.before.current_tick > HEARTBEAT_TIMEOUT_TICKS
    /\ ev.result[1].valid

\* C18: a JOIN for an agent id without an account creates one with wallet
\* 100 and an empty inventory and changes nothing else; a JOIN for an id that
\* has an account, however it was created, changes nothing at all.
C18_JoinIdempotent ==
    (ev.h = "market" /\ ev.env.type = "join") =>
        LET id == ev.env.payload.agent_id
        IN IF id \in DOMAIN ev.before.accounts
           THEN banker = ev.before
           ELSE banker = [ev.before EXCEPT !.accounts =
                             Put(@, id, [wallet |-> STARTING_WALLET,
                                         inventory |-> EmptyDict])]

\* a re-JOIN of an agent that has traded and holds items
C18_Witness ==
    /\ ev.h = "market"
    /\ ev.env.type = "join"
    /\ ev.env.payload.agent_id \in DOMAIN ev.before.accounts
    /\ Wallet(ev.before, ev.env.payload.agent_id) # STARTING_WALLET
    /\ Count(ev.before, ev.env.payload.agent_id, "potato") > 0

C18_WitnessCreated ==
    /\ ev.h = "market"
    /\ ev.env.type = "join"
    /\ ev.env.payload.agent_id \notin DOMAIN ev.before.accounts
    /\ ev.env.payload.agent_id # ev.env.from
    /\ ev.before.accounts # EmptyDict

\* The run just made handled a GATHER_RESULT
GatherResultHandled == ev.h = "world" /\ ev.env.type = "gather_result"

\* C19: a GATHER_RESULT with success=true, quantity > 0 and a non-empty
\* agent_id credits exactly quantity of item to agent_id, whose account is
\* first created with wallet 100 if missing, and changes nothing else; any
\* other GATHER_RESULT creates no account and changes nothing.
C19_GatherResultCreditsOrNothing ==
    GatherResultHandled =>
        LET p == ev.env.payload
            account == IF p.agent_id \in DOMAIN ev.before.accounts
                       THEN ev.before.accounts[p.agent_id]
                       ELSE [wallet |-> STARTING_WALLET, inventory |-> EmptyDict]
        IN IF p.success /\ p.quantity > 0 /\ p.agent_id # ""
           THEN banker = [ev.before EXCEPT !.accounts =
                    Put(@, p.agent_id,
                        [account EXCEPT !.inventory =
                            Put(@, p.item, Get(@, p.item, 0) + p.quantity)])]
           ELSE banker = ev.before

\* the account is created by the GATHER_RESULT itself
C19_Witness ==
    /\ GatherResultHandled
    /\ ev.env.payload.success
    /\ ev.env.payload.quantity > 0
    /\ ev.env.payload.agent_id # ""
    /\ ev.env.payload.agent_id \notin DOMAIN ev.before.accounts
    /\ ev.before.accounts # EmptyDict
    /\ Wallet(banker, ev.env.payload.agent_id) = STARTING_WALLET
    /\ Count(banker, ev.env.payload.agent_id, "potato") = 2

C19_WitnessIgnored ==
    /\ GatherResultHandled
    /\ ev.env.payload.success
    /\ ev.env.payload.quantity <= 0
    /\ ev.env.payload.agent_id \notin DOMAIN banker.accounts

\* The run just made handled an OFFER or a BID
OrderHandled == ev.h = "market" /\ ev.env.type \in {"offer", "bid"}

OrderCost == ev.env.payload.quantity * ev.env.payload.max_price_per_unit

\* C20: an OFFER or a BID never changes a wallet or an inventory; it is
\* rejected exactly when its sender has no account, or (OFFER) holds fewer
\* than quantity of the item, or (BID) has a wallet below quantity x
\* max_price_per_unit; rejected, it leaves the book unchanged, and accepted,
\* it only puts one order under the envelope's id.
C20_OrdersMoveNothing ==
    OrderHandled =>
        LET p == ev.env.payload
            f == ev.env.from
            rejected ==
                \/ f \notin DOMAIN ev.before.accounts
                \/ ev.env.type = "offer" /\ Count(ev.before, f, p.item) < p.quantity
                \/ ev.env.type = "bid" /\ Wallet(ev.before, f) < OrderCost
        IN /\ banker.accounts = ev.before.accounts
           /\ banker.current_tick = ev.before.current_tick
           /\ ev.errors # {} <=> rejected
           /\ rejected => banker.orders = ev.before.orders
           /\ ~rejected =>
                 /\ DOMAIN banker.orders = DOMAIN ev.before.orders \cup {ev.env.id}
                 /\ \A m \in DOMAIN ev.before.orders \ {ev.env.id} :
                       banker.orders[m] = ev.before.orders[m]
                 /\ banker.orders[ev.env.id].from_agent = f
                 /\ banker.orders[ev.env.id].msg_type = ev.env.type
                 /\ banker.orders[ev.env.id].item = p.item
                 /\ banker.orders[ev.env.id].quantity = p.quantity

\* a BID costing exactly the wallet, accepted beside another order
C20_Witness ==
    /\ OrderHandled
    /\ ev.env.type = "bid"
    /\ ev.env.from \in DOMAIN ev.before.accounts
    /\ OrderCost = Wallet(ev.before, ev.env.from)
    /\ ev.env.id \in DOMAIN banker.orders
    /\ ev.before.orders # EmptyDict
    /\ ev.env.id \notin DOMAIN ev.before.orders

C20_WitnessRejectedOffer ==
    /\ OrderHandled
    /\ ev.env.type = "offer"
    /\ ev.env.from \in DOMAIN ev.before.accounts
    /\ ev.errors = {"insufficient inventory"}
    /\ ev.before.orders # EmptyDict

C20_WitnessRejectedBid ==
    /\ OrderHandled
    /\ ev.env.type = "bid"
    /\ ev.errors = {"insufficient funds"}


TickHandled == ev.h = "tick"

Expired(order, n) == \E t \in order.expires_tick : t <= n

\* C21: immediately after the Banker handles Tick n the book holds no order
\* whose expires_tick is set and <= n, every other order is still there as it
\* was, and the accounts (wallets, inventories) are untouched.
C21_TickPurgesExactlyExpired ==
    TickHandled =>
        LET n == ev.env.payload.tick_number
        IN /\ \A m \in DOMAIN banker.orders : ~Expired(banker.orders[m], n)
           /\ \A m \in DOMAIN ev.before.orders :
                 ~Expired(ev.before.orders[m], n) =>
                     /\ m \in DOMAIN banker.orders
                     /\ banker.orders[m] = ev.before.orders[m]
           /\ banker.accounts = ev.before.accounts

\* a Tick that purged one order and kept another whose expiry is later
C21_Witness ==
    /\ TickHandled
    /\ \E m \in DOMAIN ev.before.orders : m \notin DOMAIN banker.orders
    /\ \E m \in DOMAIN banker.orders :
          \E t \in banker.orders[m].expires_tick : t > ev.env.payload.tick_number

\* a Tick that purged one order and kept one that never expires
C21_WitnessNull ==
    /\ TickHandled
    /\ \E m \in DOMAIN ev.before.orders :
          /\ ev.before.orders[m].expires_tick = {ev.env.payload.tick_number}
          /\ m \notin DOMAIN banker.orders
    /\ \E m \in DOMAIN banker.orders : banker.orders[m].expires_tick = {}
    /\ DOMAIN banker.accounts = Agents


\* ------------------------------------------------------------ agent runtime
Published == a_out.msgs

CountedMsgs == SelectSeq(Published, LAMBDA m : m.env.type # "join")

InFlightCounted ==
    IF a_pending # <<>> /\ a_pending[1].env.type # "join" THEN 1 ELSE 0

Decided == IF a_out.decided = <<>> THEN <<>> ELSE a_out.decided[1]

StrategyMsgs == SelectSeq(Published, LAMBDA m : ~m.implicit)

ImplicitMsgs == SelectSeq(Published, LAMBDA m : m.implicit)

\* C22: within one tick the runtime publishes at most five messages other
\* than JOIN; actions_this_tick is the number of them (HEARTBEAT and
\* CRAFT_COMPLETE count, JOIN does not, a new tick starts at 0), and no
\* action is started once it reached five.
C22_AtMostFiveActionsPerTick ==
    /\ Len(CountedMsgs) + InFlightCounted <= 5
    /\ agent.actions_this_tick = Len(CountedMsgs)
    /\ a_pending # <<>> => agent.actions_this_tick < 5

\* five messages went out, an implicit HEARTBEAT among them, and the handler
\* returned with actions of decide left over
C22_Witness ==
    /\ a_pc.at = "idle"
    /\ Len(CountedMsgs) = 5
    /\ \E i \in 1 .. Len(Published) :
          Published[i].implicit /\ Published[i].env.type = "heartbeat"
    /\ Len(Decided) > Len(StrategyMsgs) + 1

\* a JOIN and five counted messages in one tick
C22_WitnessJoin ==
    /\ Len(CountedMsgs) = 5
    /\ Len(Published) = 6
    /\ Published[1].env.type = "join"

RECURSIVE Kept(_, _, _)
Kept(actions, k, skipped) ==
    IF k = 0 THEN <<>>
    ELSE IF k \in skipped THEN Kept(actions, k - 1, skipped)
    ELSE Append(Kept(actions, k - 1, skipped), actions[k])

ActionsOf(msgs) == [i \in 1 .. Len(msgs) |-> msgs[i].action]

ImplicitRank(m) ==
    CASE m.env.type = "join" -> 1
      [] m.env.type = "heartbeat" -> 2
      [] OTHER -> 3

ImplicitOrder ==
    /\ \A i, j \in 1 .. Len(Published) :
          i < j /\ Published[j].implicit => Published[i].implicit
    /\ \A i, j \in 1 .. Len(ImplicitMsgs) :
          i < j => ImplicitRank(ImplicitMsgs[i]) < ImplicitRank(ImplicitMsgs[j])
    /\ \A i \in 1 .. Len(ImplicitMsgs) :
          ImplicitMsgs[i].env.type \in {"join", "heartbeat", "craft_complete"}
    /\ a_first \subseteq {"join"}

C23_WitnessAll ==
    /\ Len(ImplicitMsgs) = 2
    /\ ImplicitMsgs[2].env.type = "craft_complete"
    /\ Len(StrategyMsgs) >= 2

\* the first tick of an agent that connected late: JOIN, then HEARTBEAT
C23_WitnessJoin ==
    /\ Len(ImplicitMsgs) = 2
    /\ ImplicitMsgs[1].env.type = "join"
    /\ Len(StrategyMsgs) >= 2

\* a raising action ended the run before the actions after it
C23_WitnessRaise ==
    /\ a_pc.at = "idle"
    /\ Len(Decided) = 2
    /\ Decided[1] = CraftStew
    /\ Published = <<>>
    /\ agent.joined

JobDue ==
    \E job \in a_out.active_craft :
        agent.current_tick >= job.started_tick + job.duration_ticks

ImplicitCompletes ==
    SelectSeq(Published, LAMBDA m : m.implicit /\ m.env.type = "craft_complete")

ImplicitCompletePublished ==
    /\ ev.h = "agent_published"
    /\ ev.implicit
    /\ ev.action.kind = "craft_complete"

\* C24: the implicit CRAFT_COMPLETE goes out in the handler of a tick if and
\* only if the job that tick found is due (tick >= started_tick +
\* duration_ticks), so at the first such tick and at no earlier one; it
\* credits output_quantity of the output, clears active_craft and goes out
\* once.
C24_CraftCompleteWhenDue ==
    /\ a_out.decided # <<>> => (JobDue <=> Len(ImplicitCompletes) = 1)
    /\ Len(ImplicitCompletes) <= 1
    /\ Len(ImplicitCompletes) = 1 => JobDue
    /\ ImplicitCompletePublished =>
          LET recipe == RECIPES[ev.action.params.recipe]
          IN /\ ev.before.active_craft # {}
             /\ agent.active_craft = {}
             /\ Get(agent.inventory, recipe.output, 0)
                   = Get(ev.before.inventory, recipe.output, 0)
                     + recipe.output_quantity

\* the CRAFT_COMPLETE went out at the very tick the job is due
C24_Witness ==
    /\ ImplicitCompletePublished
    /\ \E job \in ev.before.active_craft :
          agent.current_tick = job.started_tick + job.duration_ticks

\* the tick before the due one was handled and nothing went out
C24_WitnessEarly ==
    /\ a_out.decided # <<>>
    /\ \E job \in a_out.active_craft :
          agent.current_tick = job.started_tick + job.duration_ticks - 1
    /\ agent.active_craft = a_out.active_craft
    /\ Len(ImplicitCompletes) = 0

\* the due tick was not delivered; the CRAFT_COMPLETE went out at the next
C24_WitnessLate ==
    /\ ImplicitCompletePublished
    /\ \E job \in ev.before.active_craft :
          agent.current_tick > job.started_tick + job.duration_ticks


BankerCraftStartHandled == ev.h = "market" /\ ev.env.type = "craft_start"

InvCount(st, a, i) ==
    IF a \in DOMAIN st.accounts THEN Get(st.accounts[a].inventory, i, 0) ELSE 0

LacksInput ==
    \E item \in DOMAIN ev.env.payload.inputs :
        InvCount(ev.before, ev.env.from, item) < ev.env.payload.inputs[item]

\* C25: a CRAFT_START of a sender with no account, or lacking one of the
\* listed inputs, leaves the Banker's state as it was; otherwise every listed
\* input goes down by exactly its listed count and nothing else changes.
\* No CRAFT_START changes a wallet.
C25_CraftStartAllOrNothing ==
    BankerCraftStartHandled =>
        LET a == ev.env.from
            inputs == ev.env.payload.inputs
        IN /\ (a \notin DOMAIN ev.before.accounts \/ LacksInput) =>
                  banker = ev.before
           /\ (a \in DOMAIN ev.before.accounts /\ ~LacksInput) =>
                  /\ \A item \in ITEMS :
                        InvCount(banker, a, item) =
                            InvCount(ev.before, a, item)
                            - Get(inputs, item, 0)
                  /\ DOMAIN banker.accounts = DOMAIN ev.before.accounts
                  /\ \A x \in DOMAIN banker.accounts \ {a} :
                        banker.accounts[x] = ev.before.accounts[x]
           /\ \A x \in DOMAIN ev.before.accounts :
                 banker.accounts[x].wallet = ev.before.accounts[x].wallet
           /\ banker.orders = ev.before.orders

\* two inputs listed, one of them held and the other lacking: nothing moved
C25_Witness ==
    /\ BankerCraftStartHandled
    /\ ev.env.from \in DOMAIN ev.before.accounts
    /\ DOMAIN ev.env.payload.inputs = CraftItems
    /\ InvCount(ev.before, ev.env.from, "potato") >= ev.env.payload.inputs["potato"]
    /\ ev.env.payload.inputs["potato"] > 0
    /\ InvCount(ev.before, ev.env.from, "onion") < ev.env.payload.inputs["onion"]

\* two inputs listed and both held: both debited
C25_WitnessDebited ==
    /\ BankerCraftStartHandled
    /\ ev.env.payload.inputs = [potato |-> 2, onion |-> 1]
    /\ ev.errors = {}
    /\ InvCount(banker, ev.env.from, "potato") = 0
    /\ InvCount(ev.before, ev.env.from, "onion") = 2

BankerCraftCompleteHandled == ev.h = "market" /\ ev.env.type = "craft_complete"

\* C26: a CRAFT_COMPLETE of a sender with an account credits every item of
\* its output by the listed count, whatever CRAFT_STARTs and verdicts of the
\* Governor came before; without an account it changes nothing.
C26_CraftCompleteAlwaysCredits ==
    BankerCraftCompleteHandled =>
        LET a == ev.env.from
            output == ev.env.payload.output
        IN /\ a \notin DOMAIN ev.before.accounts => banker = ev.before
           /\ a \in DOMAIN ev.before.accounts =>
                 /\ ev.errors = {}
                 /\ \A item \in ITEMS :
                       InvCount(banker, a, item) =
                           InvCount(ev.before, a, item) + Get(output, item, 0)
                 /\ banker.accounts[a].wallet = ev.before.accounts[a].wallet

\* a, who sends no CRAFT_START at all, is credited two outputs
C26_Witness ==
    /\ BankerCraftCompleteHandled
    /\ ev.env.from = "a"
    /\ ev.env.payload.output = [soup |-> 1, potato |-> 1]
    /\ InvCount(ev.before, "a", "soup") = 1
    /\ InvCount(banker, "a", "soup") = 2
    /\ InvCount(banker, "a", "potato") = 1

\* b is credited although it never held an input
C26_WitnessNoInputs ==
    /\ BankerCraftCompleteHandled
    /\ ev.env.from = "b"
    /\ "b" \in DOMAIN ev.before.accounts
    /\ ev.before.accounts["b"].inventory = EmptyDict
    /\ InvCount(banker, "b", "soup") = 1


LastSpawnTick == IF nature_spawn = <<>> THEN 0 ELSE nature_spawn[1].tick

\* C27: the Ticks are numbered 1, 2, 3, ...; Tick n is published before
\* Spawn n and Spawn n before Tick n+1 (the last published Tick is the last
\* published Spawn's or its successor); Spawn n carries tick n and the whole
\* spawn table.
C27_TickThenSpawnInOrder ==
    /\ tick_out \in {LastSpawnTick, LastSpawnTick + 1}
    /\ ev.h = "publish_tick" => tick_out = LastSpawnTick + 1
    /\ ev.h = "publish_spawn" =>
          /\ nature_spawn[1].tick = tick_out
          /\ nature_spawn[1].tick = ev.tick
          /\ nature_spawn[1].items = spawn_table
    /\ w_pc.at = "publish_tick" => w_pc.tick_number = tick_out + 1
    /\ w_pc.at = "publish_spawn" =>
          tick_out = w_pc.tick_number /\ LastSpawnTick = tick_out - 1

\* Spawn 2 is published with the whole table although a Gather has taken
\* from pool 2 while the Tick and the Spawn were being published
C27_Witness ==
    /\ ev.h = "publish_spawn"
    /\ ev.tick = 2
    /\ world.active_spawn[1].spawn_id = nature_spawn[1].spawn_id
    /\ world.active_spawn[1].remaining # spawn_table

\* Tick 2 is out and Spawn 2 not yet
C27_WitnessBetween ==
    /\ tick_out = 2
    /\ LastSpawnTick = 1
    /\ w_pc.at = "publish_spawn"


ActiveGatherHandled ==
    /\ GatherHandled
    /\ WellFormedGather
    /\ ev.before.active_spawn # <<>>
    /\ ev.before.active_spawn[1].spawn_id = ev.env.payload.spawn_id

Available == Get(ev.before.active_spawn[1].remaining, ev.env.payload.item, 0)

\* C28: a well-formed Gather against the active spawn id, with available
\* the pool's remaining count of the item (0 if absent): if available = 0
\* the result is success=false with quantity 0 and the pool is unchanged;
\* otherwise granted = min(requested, available), the remaining count goes
\* down by granted, success=true, and the reason is the "Partial" text iff
\* granted < requested (none on a full grant).
C28_GrantIsMinOfAskedAndLeft ==
    ActiveGatherHandled =>
        LET requested == ev.env.payload.quantity
            item == ev.env.payload.item
            res == ev.result[1]
        IN IF Available = 0
           THEN /\ ~res.success
                /\ res.quantity = 0
                /\ world = ev.before
           ELSE LET g == IF requested <= Available THEN requested ELSE Available
                IN /\ res.success
                   /\ res.quantity = g
                   /\ world.active_spawn[1].remaining[item] = Available - g
                   /\ \A i \in DOMAIN ev.before.active_spawn[1].remaining \ {item} :
                         world.active_spawn[1].remaining[i]
                             = ev.before.active_spawn[1].remaining[i]
                   /\ world.active_spawn[1].spawn_id
                         = ev.before.active_spawn[1].spawn_id
                   /\ world.current_tick = ev.before.current_tick
                   /\ IF g < requested
                      THEN res.reason = {<<"Partial: only", g, "remaining">>}
                      ELSE res.reason = {}

\* more asked than left: a partial grant
C28_Witness ==
    /\ ActiveGatherHandled
    /\ Available > 0
    /\ Available < ev.env.payload.quantity
    /\ ev.result[1].reason # {}

\* a full grant that leaves some
C28_WitnessFull ==
    /\ ActiveGatherHandled
    /\ Available > ev.env.payload.quantity
    /\ ev.result[1].reason = {}

\* nothing left of an item of the pool
C28_WitnessNone ==
    /\ ActiveGatherHandled
    /\ ev.env.payload.item \in DOMAIN ev.before.active_spawn[1].remaining
    /\ Available = 0

\* an item the pool never had
C28_WitnessAbsent ==
    /\ ActiveGatherHandled
    /\ ev.env.payload.item \notin DOMAIN ev.before.active_spawn[1].remaining
    /\ ~ev.result[1].success


Quiescent ==
    /\ \A queue \in DOMAIN bus : bus[queue] = <<>>
    /\ a_pending = <<>>
    /\ a_pc.at = "idle"
    /\ bank_pending = <<>>
    /\ world_pending = <<>>
    /\ w_pc.at = "loop"

BankerAccountOfAgent == banker.accounts[AGENT_ID]

C29_WitnessBought ==
    /\ Quiescent
    /\ agent.joined
    /\ bank_out # <<>>
    /\ bank_out[1].buyer = AGENT_ID
    /\ agent.wallet = STARTING_WALLET
    /\ BankerAccountOfAgent.wallet = STARTING_WALLET

\* C30: in a quiescent state in which the agent has joined, the runtime's
\* inventory equals the inventory of the agent's Banker account.
C30_InventoryMirrorsBanker ==
    (Quiescent /\ agent.joined) =>
        /\ has_account(banker, AGENT_ID)
        /\ \A item \in AgentItems :
              inventory_count(agent, item) =
                  Get(BankerAccountOfAgent.inventory, item, 0)


RECURSIVE SumWallets(_, _)
SumWallets(st, agents) ==
    IF agents = {} THEN 0
    ELSE LET a == CHOOSE x \in agents : TRUE
         IN st.accounts[a].wallet + SumWallets(st, agents \ {a})

WalletTotal(st) == SumWallets(st, DOMAIN st.accounts)

\* C32: in every reachable Banker state the sum of all account wallets is
\* 100 times the number of accounts.
C32_MoneyIsConserved ==
    WalletTotal(banker) = STARTING_WALLET * Cardinality(DOMAIN banker.accounts)

\* The market handler is suspended in the Settlement publish of the ACCEPT
\* it just handled: the first point at which another handler can run.
SuspendedInAccept == TradeApplied /\ bank_pending # <<>>

\* Another handler of the Banker ran
OtherHandlerRan == ev.h \in {"world", "tick"}

\* ... while the market handler was suspended in an ACCEPT
RanDuringAccept == OtherHandlerRan /\ bank_pending # <<>>

\* C31: a trade is applied as one step.  Where the market handler suspends
\* during an ACCEPT (the Settlement publish) both wallets, both inventories
\* and the order already carry the trade; and the state a Tick or a
\* GATHER_RESULT handler starts from never holds a trade of which one wallet
\* moved and the other did not: it keeps the money of the accounts, and the
\* buyer of the Settlement in flight holds what it bought.
C31_TradeAppliedAsOneStep ==
    /\ SuspendedInAccept =>
          LET t == bank_pending[1]
              R == ev.env.payload.reference_msg_id
          IN /\ Wallet(banker, t.buyer) = Wallet(ev.before, t.buyer) - t.total_price
             /\ Wallet(banker, t.seller) = Wallet(ev.before, t.seller) + t.total_price
             /\ Count(banker, t.buyer, t.item) = Count(ev.before, t.buyer, t.item) + t.quantity
             /\ Count(banker, t.seller, t.item) = Count(ev.before, t.seller, t.item) - t.quantity
             /\ IF RefOrder.quantity = t.quantity
                THEN R \notin DOMAIN banker.orders
                ELSE banker.orders[R].quantity = RefOrder.quantity - t.quantity
    /\ OtherHandlerRan =>
          WalletTotal(ev.before)
              = STARTING_WALLET * Cardinality(DOMAIN ev.before.accounts)
    /\ RanDuringAccept =>
          Count(ev.before, bank_pending[1].buyer, bank_pending[1].item)
              >= bank_pending[1].quantity

\* a GATHER_RESULT credited to the buyer while the Settlement was in flight
C31_Witness ==
    /\ RanDuringAccept
    /\ ev.h = "world"
    /\ ev.env.type = "gather_result"
    /\ "agent_id" \in DOMAIN ev.env.payload
    /\ ev.env.payload.agent_id = bank_pending[1].buyer
    /\ banker # ev.before

\* a Tick handled while the Settlement was in flight
C31_WitnessTick ==
    /\ RanDuringAccept
    /\ ev.h = "tick"
    /\ banker.current_tick # ev.before.current_tick

\* the OFFER or BID envelope with id R
OrderEnvelope(R) ==
    CHOOSE e \in RedeliveryEnvelopes : e.id = R /\ e.type \in {"offer", "bid"}

RECURSIVE SettledQuantity(_, _)
SettledQuantity(log, R) ==
    IF log = <<>> THEN 0
    ELSE (IF Head(log).reference_msg_id = R THEN Head(log).quantity ELSE 0)
         + SettledQuantity(Tail(log), R)

\* C33: for every order id R, the quantities of all Settlements published
\* with reference_msg_id = R add up to at most the quantity stated in the
\* OFFER or BID envelope with id R, however often that envelope is delivered.
C33_SettledWithinStatedQuantity ==
    \A R \in {"m1", "m2"} :
        SettledQuantity(bank_out, R) <= OrderEnvelope(R).payload.quantity

\* the ValidationResult being published answers a message of the agent
AgentAnswered ==
    /\ gov_pending # <<>>
    /\ gov_pending[1].result.reference_msg_id[1] = AGENT_ID

\* C34: the agent running the shared runtime with the default budget is
\* never answered "Rate limited", and the Governor never counts more than
\* five of its messages between two of its tick resets, for every
\* interleaving of Ticks and the agent's market messages.
C34_RuntimeNeverRateLimited ==
    /\ AgentAnswered =>
          <<"Rate limited", AGENT_ID>> \notin gov_pending[1].result.reason
    /\ get_action_count(gov, AGENT_ID) <= MAX_ACTIONS_PER_TICK

\* C35: every OFFER or BID of another agent that the market handler
\* appended to observed_offers since decide was last called is in the
\* observed_offers handed to decide at its next call.
C35_ObservedOffersReachDecide ==
    a_out.at_decide # <<>> =>
        a_out.at_decide[1].observed \subseteq a_out.at_decide[1].handed

\* a GATHER of the agent, published while it handled the Tick the World
\* is still at, waits for the World
GatherOfCurrentTick(g) ==
    /\ g.type = "gather"
    /\ g.from = AGENT_ID
    /\ g.tick = world.current_tick

\* C36: a GATHER the runtime publishes while handling Tick n carries the
\* spawn id of the pool the World created at tick n, whatever the order in
\* which the Tick and the Spawn reach the agent, so that the World, still
\* at tick n, finds it to name the active pool.
C36_GatherCarriesSpawnOfItsTick ==
    \A k \in DOMAIN bus.world_nature :
        GatherOfCurrentTick(bus.world_nature[k]) =>
            /\ world.active_spawn # <<>>
            /\ bus.world_nature[k].payload.spawn_id
                   = world.active_spawn[1].spawn_id

\* C37: whenever an ACCEPT changes the Banker's state, one Settlement with
\* status "completed" and the trade's buyer, seller, item, quantity and
\* total_price is published to /market/bank, whatever the quantities of
\* the ACCEPT and of the order.
C37_AppliedTradeIsSettled ==
    (AcceptHandled /\ banker # ev.before) =>
        /\ ev.trade # <<>>
        /\ bank_pending # <<>>
        /\ bank_pending[1].status = "completed"
        /\ bank_pending[1].buyer = ev.trade[1].buyer
        /\ bank_pending[1].seller = ev.trade[1].seller
        /\ bank_pending[1].item = ev.trade[1].item
        /\ bank_pending[1].quantity = ev.trade[1].quantity
        /\ bank_pending[1].total_price = ev.trade[1].total_price

\* the Governor answered the message with "Rate limited"
RateLimitedHandled == GovHandled /\ RateLimited

\* C38: a message rejected as "Rate limited" changes nothing in the
\* Governor's state but the sender's action counter, which grows by one:
\* no heartbeat is refreshed, no agent registered, no craft recorded or
\* cleared.
C38_RateLimitedOnlyCounts ==
    RateLimitedHandled =>
        /\ gov.current_tick = ev.before.current_tick
        /\ gov.last_heartbeat_tick = ev.before.last_heartbeat_tick
        /\ gov.known_agents = ev.before.known_agents
        /\ gov.active_crafts = ev.before.active_crafts
        /\ DOMAIN gov.actions_this_tick = DOMAIN ev.before.actions_this_tick
        /\ \A a \in DOMAIN gov.actions_this_tick :
              gov.actions_this_tick[a] =
                  ev.before.actions_this_tick[a]
                      + (IF a = ev.env.from THEN 1 ELSE 0)

\* a rate-limited HEARTBEAT of an agent whose last heartbeat is not of the
\* current tick
C38_Witness ==
    /\ RateLimitedHandled
    /\ ev.env.type = "heartbeat"
    /\ Get(ev.before.last_heartbeat_tick, ev.env.from, -1) # ev.before.current_tick

\* a rate-limited JOIN of an agent not registered yet
C38_WitnessJoin ==
    /\ RateLimitedHandled
    /\ ev.env.type = "join"
    /\ ev.env.from \notin ev.before.known_agents

\* a rate-limited, otherwise acceptable CRAFT_START
C38_WitnessCraftStart ==
    /\ RateLimitedHandled
    /\ ev.env.type = "craft_start"
    /\ ev.env.payload.estimated_ticks = RECIPES["soup"].ticks
    /\ ev.env.payload.inputs = RECIPES["soup"].inputs
    /\ ev.env.payload.recipe = "soup"
    /\ ev.env.from \notin DOMAIN ev.before.active_crafts

\* a rate-limited CRAFT_COMPLETE of an agent that is crafting
C38_WitnessCraftComplete ==
    /\ RateLimitedHandled
    /\ ev.env.type = "craft_complete"
    /\ ev.env.from \in DOMAIN ev.before.active_crafts

GovCraftCompleteHandled == GovHandled /\ ev.env.type = "craft_complete"

\* C40: a CRAFT_COMPLETE is answered valid=true only if the sender has an
\* active craft and the Governor's current tick is at least the craft's
\* started tick plus its estimated_ticks.
C40_CraftCompleteOnlyWhenDue ==
    (GovCraftCompleteHandled /\ ev.result[1].valid) =>
        /\ HasActiveCraft
        /\ ev.before.current_tick >=
               ev.before.active_crafts[ev.env.from].started_tick
                   + ev.before.active_crafts[ev.env.from].estimated_ticks

\* C39: whenever an ACCEPT produces a Settlement, the referenced order's
\* expires_tick is null or greater than the Banker's current tick, also for
\* an OFFER that reached the Banker with an expires_tick already passed.
C39_NoTradeOnExpiredOrder ==
    (TradeApplied /\ bank_pending # <<>>) =>
        \A e \in RefOrder.expires_tick : e > ev.before.current_tick

====
